---- MODULE Spec2Model ----
(***************************************************************************)
(* Model of the maximum-weight-matching core of the repository             *)
(* (src/python/mwmatching/algorithm.py and datastruct.py).                 *)
(*                                                                         *)
(* Encoding                                                                *)
(*   - vertices are 0 .. n-1 as in the source; edge indices are 1 .. m     *)
(*     (the source's e is the index here minus 1; "no edge" is 0);         *)
(*   - a blossom is an id: the trivial blossom of vertex x is x, a         *)
(*     non-trivial blossom gets the next id >= n when it is created;       *)
(*   - the ConcatenableQueue of a blossom has the blossom's id (its name   *)
(*     is the blossom); the leaf node of vertex x has node id x, internal  *)
(*     2-3 tree nodes get the next node id >= n;                           *)
(*   - a shared tree_blossoms set object is a tree id (the root vertex it  *)
(*     was created for in start()), tree_sets maps it to its content;      *)
(*   - a PriorityQueue.Node handle is modelled by the data it carries (an  *)
(*     edge, a blossom): the handle fields are TRUE when the source holds  *)
(*     a node and the node is looked up in the heap by its data;           *)
(*   - None is NoneId; math.inf is Inf;                                    *)
(*   - iteration over a Python set of blossoms is a choice of an order.    *)
(***************************************************************************)
EXTENDS Integers, Sequences, FiniteSets, TLC

NoneId == -1

Inf == 1000000

LABEL_NONE == 0

LABEL_S == 1

LABEL_T == 2

(***************************************************************************)
(* General helpers for Python list operations.                             *)
(***************************************************************************)
Range(s) == {s[i] : i \in DOMAIN s}

Reverse(s) == [i \in 1..Len(s) |-> s[Len(s) + 1 - i]]

Last(s) == s[Len(s)]

ButLast(s) == SubSeq(s, 1, Len(s) - 1)

IndexOf(s, v) == CHOOSE i \in 1..Len(s) : s[i] = v /\ \A j \in 1..(i-1) : s[j] # v

RECURSIVE SetToSeqAsc(_)
SetToSeqAsc(S) ==
    IF S = {} THEN <<>>
    ELSE LET m == CHOOSE x \in S : \A y \in S : x <= y
         IN <<m>> \o SetToSeqAsc(S \ {m})

\* All the orders in which a Python set with content S can be iterated.
Orderings(S) ==
    {s \in [1..Cardinality(S) -> S] : \A i, j \in 1..Cardinality(S) : i # j => s[i] # s[j]}

(***************************************************************************)
(* PriorityQueue (datastruct.py): a binary heap kept in a list.  A heap is *)
(* a sequence of nodes [index, prio, data]; the node at Python position i  *)
(* is heap[i+1] here, and its index field is kept as the source keeps it.  *)
(***************************************************************************)
PQ_new == <<>>

PQ_empty(heap) == Len(heap) = 0

\* find_min: "if not self.heap: raise IndexError", else heap[0].
IndexError == [raised |-> "IndexError"]

PQ_find_min(heap) == IF Len(heap) = 0 THEN IndexError ELSE heap[1]

\* The node object behind a handle.
PQ_node(heap, data) == heap[CHOOSE i \in 1..Len(heap) : heap[i].data = data]

PQ_has(heap, data) == \E i \in 1..Len(heap) : heap[i].data = data

RECURSIVE PQ_sift_up_loop(_, _, _)
PQ_sift_up_loop(heap, prio, pos) ==
    IF pos > 0
    THEN LET tpos == (pos - 1) \div 2
             tnode == heap[tpos + 1]
         IN IF tnode.prio <= prio
            THEN <<heap, pos>>
            ELSE PQ_sift_up_loop(
                     [heap EXCEPT ![pos + 1] = [tnode EXCEPT !.index = pos]],
                     prio, tpos)
    ELSE <<heap, pos>>

\* Variant: the node is stored at its new position with its old index field.
PQ_place_keep_index(r, node, index) ==
    IF r[2] # index THEN [r[1] EXCEPT ![r[2] + 1] = node] ELSE r[1]

\* The end of _sift_up/_sift_down: "if pos != index: heap[pos] = node".
PQ_place(r, node, index) ==
    IF r[2] # index
    THEN [r[1] EXCEPT ![r[2] + 1] = [node EXCEPT !.index = r[2]]]
    ELSE r[1]

PQ_sift_up(heap, index) ==
    PQ_place(PQ_sift_up_loop(heap, heap[index + 1].prio, index), heap[index + 1], index)

\* Variant: the descent always compares with the left child.
RECURSIVE PQ_sift_down_loop_left_child(_, _, _)
PQ_sift_down_loop_left_child(heap, prio, pos) ==
    LET tpos == 2 * pos + 1
    IN IF tpos >= Len(heap) \/ heap[tpos + 1].prio >= prio
       THEN <<heap, pos>>
       ELSE PQ_sift_down_loop_left_child(
                [heap EXCEPT ![pos + 1] = [heap[tpos + 1] EXCEPT !.index = pos]],
                prio, tpos)

RECURSIVE PQ_sift_down_loop(_, _, _)
PQ_sift_down_loop(heap, prio, pos) ==
    LET num_elem == Len(heap)
        tpos0 == 2 * pos + 1
    IN IF tpos0 >= num_elem
       THEN <<heap, pos>>
       ELSE LET qpos == tpos0 + 1
                useq == qpos < num_elem /\ heap[qpos + 1].prio <= heap[tpos0 + 1].prio
                tpos == IF useq THEN qpos ELSE tpos0
                tnode == heap[tpos + 1]
            IN IF tnode.prio >= prio
               THEN <<heap, pos>>
               ELSE PQ_sift_down_loop(
                        [heap EXCEPT ![pos + 1] = [tnode EXCEPT !.index = pos]],
                        prio, tpos)

PQ_sift_down(heap, index) ==
    PQ_place(PQ_sift_down_loop(heap, heap[index + 1].prio, index), heap[index + 1], index)

PQ_insert(heap, prio, data) ==
    LET new_index == Len(heap)
    IN PQ_sift_up(Append(heap, [index |-> new_index, prio |-> prio, data |-> data]),
                  new_index)

\* delete(elem): elem is the node carrying "data".
\* delete: "if node.prio < elem.prio: sift up, elif node.prio > elem.prio: sift down".
PQ_delete_sift(heap, node_prio, elem_prio, index) ==
    IF node_prio < elem_prio THEN PQ_sift_up(heap, index)
    ELSE IF node_prio > elem_prio THEN PQ_sift_down(heap, index)
    ELSE heap

PQ_delete_node(heap, elem) ==
    LET index == elem.index
        node == Last(heap)
        popped == ButLast(heap)
    IN IF index < Len(popped)
       THEN PQ_delete_sift([popped EXCEPT ![index + 1] = [node EXCEPT !.index = index]],
                           node.prio, elem.prio, index)
       ELSE popped

\* delete(elem): elem is the node carrying "data".
PQ_delete(heap, data) == PQ_delete_node(heap, PQ_node(heap, data))

PQ_decrease_prio(heap, data, prio) ==
    LET elem == PQ_node(heap, data)
    IN PQ_sift_up([heap EXCEPT ![elem.index + 1].prio = prio], elem.index)

PQ_increase_prio(heap, data, prio) ==
    LET elem == PQ_node(heap, data)
    IN PQ_sift_down([heap EXCEPT ![elem.index + 1].prio = prio], elem.index)

(***************************************************************************)
(* ConcatenableQueue (datastruct.py): a 2-3 tree per queue.                *)
(* A store S holds every node and every queue object:                      *)
(*   S.node[i]  = [owner, min_node, height, parent, childs, data, prio]    *)
(*                (data and prio are meaningful for leaves only),          *)
(*   S.queue[q] = [tree, first_node, sub_queues], the queue named q,       *)
(*   S.next     = the id the next node object gets.                        *)
(* Operators that build nodes return <<store, node>>.                      *)
(***************************************************************************)
CQ_empty_store == [node |-> <<>>, queue |-> <<>>, next |-> 0]

\* ConcatenableQueue.__init__
CQ_new_queue(S, name) ==
    [S EXCEPT !.queue = @ @@ (name :> [tree |-> NoneId, first_node |-> NoneId,
                                        sub_queues |-> <<>>])]

\* "del blossom.vertex_queue"
CQ_del_queue(S, name) ==
    [S EXCEPT !.queue = [q \in (DOMAIN @) \ {name} |-> @[q]]]

\* ConcatenableQueue.insert; returns <<store, leaf>>
CQ_insert(S, q, elem, prio) ==
    LET id == S.next
        leaf == [owner |-> q, min_node |-> id, height |-> 0, parent |-> NoneId,
                 childs |-> <<>>, data |-> elem, prio |-> prio]
    IN << [S EXCEPT !.node = @ @@ (id :> leaf),
                    !.next = id + 1,
                    !.queue[q].tree = id,
                    !.queue[q].first_node = id],
          id >>

CQ_min_prio(S, q) == S.node[S.node[S.queue[q].tree].min_node].prio

CQ_min_elem(S, q) == S.node[S.node[S.queue[q].tree].min_node].data

RECURSIVE CQ_root(_, _)
CQ_root(S, node) ==
    IF S.node[node].parent = NoneId THEN node ELSE CQ_root(S, S.node[node].parent)

\* Node.find: the name of the queue that owns the root.
CQ_find(S, leaf) == S.node[CQ_root(S, leaf)].owner

RECURSIVE CQ_repair_scan(_, _, _, _)
CQ_repair_scan(S, childs, i, min_node) ==
    IF i > Len(childs) THEN min_node
    ELSE LET cm == S.node[childs[i]].min_node
         IN CQ_repair_scan(S, childs, i + 1,
                IF S.node[cm].prio < S.node[min_node].prio THEN cm ELSE min_node)

CQ_repair_node(S, node) ==
    LET childs == S.node[node].childs
    IN [S EXCEPT !.node[node].min_node =
            CQ_repair_scan(S, childs, 2, S.node[childs[1]].min_node)]

RECURSIVE CQ_repair_up(_, _)
CQ_repair_up(S, node) ==
    IF node = NoneId THEN S
    ELSE CQ_repair_up(CQ_repair_node(S, node), S.node[node].parent)

\* Variant: the priority of the leaf changes and no ancestor is repaired.
CQ_set_prio_leaf_only(S, leaf, prio) == [S EXCEPT !.node[leaf].prio = prio]

\* Node.set_prio
CQ_set_prio(S, leaf, prio) ==
    CQ_repair_up([S EXCEPT !.node[leaf].prio = prio], S.node[leaf].parent)

CQ_new_internal_node(S, ltree, rtree) ==
    LET id == S.next
        lmin == S.node[ltree].min_node
        rmin == S.node[rtree].min_node
        min_node == IF S.node[lmin].prio <= S.node[rmin].prio THEN lmin ELSE rmin
        n == [owner |-> NoneId, min_node |-> min_node,
              height |-> S.node[ltree].height + 1, parent |-> NoneId,
              childs |-> <<ltree, rtree>>, data |-> NoneId, prio |-> 0]
    IN << [S EXCEPT !.node = [@ EXCEPT ![ltree].parent = id, ![rtree].parent = id]
                               @@ (id :> n),
                    !.next = id + 1],
          id >>

\* The closing loop of _join_right/_join_left: repair up to the root, return it.
RECURSIVE CQ_repair_to_root(_, _)
CQ_repair_to_root(S, node) ==
    IF S.node[node].parent = NoneId THEN <<CQ_repair_node(S, node), node>>
    ELSE CQ_repair_to_root(CQ_repair_node(S, node), S.node[node].parent)

RECURSIVE CQ_descend_right(_, _, _)
CQ_descend_right(S, node, h) ==
    IF S.node[node].height > h + 1
    THEN CQ_descend_right(S, Last(S.node[node].childs), h)
    ELSE node

RECURSIVE CQ_join_right_loop(_, _, _)
\* r is <<store, rtree>> after "rtree = self._new_internal_node(child, rtree)".
CQ_join_right_up(r, node, parent) ==
    IF parent = NoneId
    THEN CQ_new_internal_node(r[1], node, r[2])
    ELSE CQ_join_right_loop(r[1], parent, r[2])

CQ_join_right_loop(S, node, rtree) ==
    IF Len(S.node[node].childs) = 3
    THEN CQ_join_right_up(
             CQ_new_internal_node(
                 CQ_repair_node([S EXCEPT !.node[node].childs = ButLast(@)], node),
                 Last(S.node[node].childs), rtree),
             node, S.node[node].parent)
    ELSE CQ_repair_to_root(
             [S EXCEPT !.node[node].childs = Append(@, rtree),
                       !.node[rtree].parent = node],
             node)

CQ_join_right(S, ltree, rtree) ==
    CQ_join_right_loop(S, CQ_descend_right(S, ltree, S.node[rtree].height), rtree)

RECURSIVE CQ_descend_left(_, _, _)
CQ_descend_left(S, node, h) ==
    IF S.node[node].height > h + 1
    THEN CQ_descend_left(S, S.node[node].childs[1], h)
    ELSE node

RECURSIVE CQ_join_left_loop(_, _, _)
\* r is <<store, ltree>> after "ltree = self._new_internal_node(ltree, child)".
CQ_join_left_up(r, node, parent) ==
    IF parent = NoneId
    THEN CQ_new_internal_node(r[1], r[2], node)
    ELSE CQ_join_left_loop(r[1], parent, r[2])

CQ_join_left_loop(S, node, ltree) ==
    IF Len(S.node[node].childs) = 3
    THEN CQ_join_left_up(
             CQ_new_internal_node(
                 CQ_repair_node([S EXCEPT !.node[node].childs = Tail(@)], node),
                 ltree, S.node[node].childs[1]),
             node, S.node[node].parent)
    ELSE CQ_repair_to_root(
             [S EXCEPT !.node[node].childs = <<ltree>> \o @,
                       !.node[ltree].parent = node],
             node)

CQ_join_left(S, ltree, rtree) ==
    CQ_join_left_loop(S, CQ_descend_left(S, rtree, S.node[ltree].height), ltree)

\* Variant: two trees are always joined under a new root.
CQ_join_under_new_root(S, ltree, rtree) == CQ_new_internal_node(S, ltree, rtree)

CQ_join(S, ltree, rtree) ==
    IF S.node[ltree].height > S.node[rtree].height THEN CQ_join_right(S, ltree, rtree)
    ELSE IF S.node[ltree].height < S.node[rtree].height THEN CQ_join_left(S, ltree, rtree)
    ELSE CQ_new_internal_node(S, ltree, rtree)

\* "if ltree is None: ltree = t else: ltree = self._join(t, ltree)"
CQ_join_to_left(S, t, ltree) ==
    IF ltree = NoneId THEN <<S, t>> ELSE CQ_join(S, t, ltree)

\* The loop of _split_tree; returns <<store, ltree, rtree>>.
\* The loop of _split_tree; returns <<store, ltree, rtree>>.
RECURSIVE CQ_split_tree_loop(_, _, _, _, _)
\* Next iteration after "rtree = self._join(rtree, ...)": r is <<store, rtree>>.
CQ_split_tree_next_r(r, node, up, ltree) ==
    CQ_split_tree_loop(r[1], node, up, ltree, r[2])

\* Next iteration after "ltree = self._join(..., ltree)": l is <<store, ltree>>.
CQ_split_tree_next_l(l, node, up, rtree) ==
    CQ_split_tree_loop(l[1], node, up, l[2], rtree)

\* Middle child of three: l is <<store, ltree>>, then "rtree = self._join(rtree, childs[2])".
CQ_split_tree_next_lr(l, node, up, rtree, right_child) ==
    CQ_split_tree_next_r(CQ_join(l[1], rtree, right_child), node, up, l[2])

CQ_split_tree_loop(S, child, parent, ltree, rtree) ==
    IF parent = NoneId THEN <<S, ltree, rtree>>
    ELSE
      LET node == parent
          up == S.node[node].parent
          S0 == [S EXCEPT !.node[node].parent = NoneId]
          childs == S.node[node].childs
      IN IF Len(childs) = 3
         THEN IF childs[1] = child
              THEN CQ_split_tree_next_r(
                       CQ_join(CQ_repair_node([S0 EXCEPT !.node[node].childs = Tail(@)], node),
                               rtree, node),
                       node, up, ltree)
              ELSE IF childs[3] = child
              THEN CQ_split_tree_next_l(
                       CQ_join_to_left(
                           CQ_repair_node([S0 EXCEPT !.node[node].childs = ButLast(@)], node),
                           node, ltree),
                       node, up, rtree)
              ELSE CQ_split_tree_next_lr(
                       CQ_join_to_left([S0 EXCEPT !.node[childs[1]].parent = NoneId,
                                                  !.node[childs[3]].parent = NoneId],
                                       childs[1], ltree),
                       node, up, rtree, childs[3])
         ELSE IF childs[1] = child
              THEN CQ_split_tree_next_r(
                       CQ_join([S0 EXCEPT !.node[childs[2]].parent = NoneId], rtree, childs[2]),
                       node, up, ltree)
              ELSE CQ_split_tree_next_l(
                       CQ_join_to_left([S0 EXCEPT !.node[childs[1]].parent = NoneId],
                                       childs[1], ltree),
                       node, up, rtree)

CQ_split_tree(S, split_node) ==
    CQ_split_tree_loop([S EXCEPT !.node[split_node].parent = NoneId],
                       split_node, S.node[split_node].parent, NoneId, split_node)

\* The loop "for sub in sub_queues[1:]" of merge; tree is self.tree.
RECURSIVE CQ_merge_loop(_, _, _, _)
\* r is <<store, self.tree>> after "self.tree = self._join(self.tree, subtree)".
CQ_merge_next(r, subs, i) == CQ_merge_loop(r[1], subs, i, r[2])

CQ_merge_loop(S, subs, i, tree) ==
    IF i > Len(subs) THEN <<S, tree>>
    ELSE CQ_merge_next(
             CQ_join([S EXCEPT !.node[S.queue[subs[i]].tree].owner = NoneId],
                     tree, S.queue[subs[i]].tree),
             subs, i + 1)

\* "self.tree.owner = self" at the end of merge.
CQ_merge_finish(r, q) == [r[1] EXCEPT !.queue[q].tree = r[2], !.node[r[2]].owner = q]

\* ConcatenableQueue.merge
CQ_merge(S, q, sub_queues) ==
    LET first == sub_queues[1]
        tree0 == S.queue[first].tree
    IN CQ_merge_finish(
           CQ_merge_loop([S EXCEPT !.queue[q].sub_queues = sub_queues,
                                   !.queue[q].tree = tree0,
                                   !.queue[q].first_node = S.queue[first].first_node,
                                   !.queue[first].tree = NoneId,
                                   !.node[tree0].owner = NoneId],
                         sub_queues, 2, tree0),
           q)

\* merge as a call that may raise: [S, raised].  The asserts on self come
\* first; "assert self.tree is not None" comes after the assignments to
\* self, and the asserts on a later sub-queue after the joins before it.
CQ_merge_call(S, q, sub_queues) ==
    IF S.queue[q].tree # NoneId \/ S.queue[q].sub_queues # <<>> \/ sub_queues = <<>>
    THEN [S |-> S, raised |-> "AssertionError"]
    ELSE LET bad == {i \in 1..Len(sub_queues) :
                        \/ S.queue[sub_queues[i]].tree = NoneId
                        \/ i > 1 /\ S.node[S.queue[sub_queues[i]].tree].owner # sub_queues[i]}
             stop == CHOOSE i \in bad : \A j \in bad : i <= j
             first == sub_queues[1]
         IN IF bad = {}
            THEN [S |-> CQ_merge(S, q, sub_queues), raised |-> "none"]
            ELSE IF stop = 1
            THEN [S |-> [S EXCEPT !.queue[q].sub_queues = sub_queues,
                                  !.queue[q].tree = NoneId,
                                  !.queue[q].first_node = S.queue[first].first_node],
                  raised |-> "AssertionError"]
            ELSE LET done == CQ_merge(S, q, SubSeq(sub_queues, 1, stop - 1))
                 IN [S |-> [done EXCEPT !.queue[q].sub_queues = sub_queues,
                                        !.node[done.queue[q].tree].owner = NoneId],
                     raised |-> "AssertionError"]

\* The loop "for sub in self.sub_queues[:0:-1]" of split; returns <<store, tree>>.
RECURSIVE CQ_split_loop(_, _, _, _)

\* Variant: the sub-queue gets its tree and the root gets no owner.
CQ_split_next_no_owner(r, subs, i) ==
    CQ_split_loop([r[1] EXCEPT !.queue[subs[i]].tree = r[3]], subs, i - 1, r[2])

\* r is <<store, tree, rtree>> returned by _split_tree(sub.first_node).
CQ_split_next(r, subs, i) ==
    CQ_split_loop([r[1] EXCEPT !.queue[subs[i]].tree = r[3], !.node[r[3]].owner = subs[i]],
                  subs, i - 1, r[2])

CQ_split_loop(S, subs, i, tree) ==
    IF i < 2 THEN <<S, tree>>
    ELSE CQ_split_next(CQ_split_tree(S, S.queue[subs[i]].first_node), subs, i)

\* The end of split: the first sub-queue gets the remaining tree.
CQ_split_finish(r, q, first) ==
    [r[1] EXCEPT !.queue[first].tree = r[2],
                 !.node[r[2]].owner = first,
                 !.queue[q].tree = NoneId,
                 !.queue[q].first_node = NoneId,
                 !.queue[q].sub_queues = <<>>]

\* ConcatenableQueue.split
CQ_split(S, q) ==
    LET subs == S.queue[q].sub_queues
    IN CQ_split_finish(
           CQ_split_loop([S EXCEPT !.node[S.queue[q].tree].owner = NoneId],
                         subs, Len(subs), NoneId),
           q, subs[1])

\* split as a call that may raise: [S, raised].  With one sub-queue the
\* loop body never runs and "self.sub_queues[0].tree = tree" reads the
\* unbound local "tree", after "self.tree.owner = None".
CQ_split_call(S, q) ==
    IF \/ S.queue[q].tree = NoneId \/ S.queue[q].sub_queues = <<>>
       \/ S.node[S.queue[q].tree].owner # q
    THEN [S |-> S, raised |-> "AssertionError"]
    ELSE IF Len(S.queue[q].sub_queues) = 1
    THEN [S |-> [S EXCEPT !.node[S.queue[q].tree].owner = NoneId],
          raised |-> "UnboundLocalError"]
    ELSE [S |-> CQ_split(S, q), raised |-> "none"]

\* insert as a call that may raise: [S, raised, leaf].
CQ_insert_call(S, q, elem, prio) ==
    IF S.queue[q].tree # NoneId
    THEN [S |-> S, raised |-> "AssertionError", leaf |-> NoneId]
    ELSE [S |-> CQ_insert(S, q, elem, prio)[1], raised |-> "none", leaf |-> S.next]

\* min_prio() and min_elem() as calls: "assert node is not None".
Raised(exception) == [raised |-> exception, value |-> NoneId]

Returned(value) == [raised |-> "none", value |-> value]

CQ_min_prio_call(S, q) ==
    IF S.queue[q].tree = NoneId THEN Raised("AssertionError")
    ELSE Returned(CQ_min_prio(S, q))

CQ_min_elem_call(S, q) ==
    IF S.queue[q].tree = NoneId THEN Raised("AssertionError")
    ELSE Returned(CQ_min_elem(S, q))

\* Node.find as a call: "assert node.owner is not None".
CQ_find_call(S, leaf) ==
    IF CQ_find(S, leaf) = NoneId THEN Raised("AssertionError")
    ELSE Returned(CQ_find(S, leaf))

(***************************************************************************)
(* A Python "for v in seq: body" over a state c is a recursive operator    *)
(* xxx_loop(c, ..., seq, i) that applies the body to seq[i], seq[i+1], ... *)
(***************************************************************************)
\* A failed "assert" of the source clears c.ok.
Require(c, cond) == IF cond THEN c ELSE [c EXCEPT !.ok = FALSE]

MaxOf(S) == CHOOSE x \in S : \A y \in S : y <= x

MinOf(S) == CHOOSE x \in S : \A y \in S : x <= y

(***************************************************************************)
(* GraphInfo (algorithm.py).  Edges are triples <<x, y, w>>.               *)
(***************************************************************************)
NumVertexOf(edges) ==
    IF edges = <<>> THEN 0
    ELSE 1 + MaxOf({IF edges[i][1] > edges[i][2] THEN edges[i][1] ELSE edges[i][2]
                    : i \in 1..Len(edges)})

GraphInfo(edges) ==
    LET n == NumVertexOf(edges)
        idx == [i \in 1..Len(edges) |-> i]
    IN [edges |-> edges,
        num_vertex |-> n,
        adjacent_edges |->
            [x \in 0..(n - 1) |->
                SelectSeq(idx, LAMBDA e : edges[e][1] = x \/ edges[e][2] = x)],
        integer_weights |-> TRUE]

(***************************************************************************)
(* Blossom and NonTrivialBlossom objects.  The marker field is not kept:   *)
(* trace_alternating_paths clears every marker it sets before it returns.  *)
(***************************************************************************)
Blossom(base_vertex) ==
    [parent |-> NoneId, base_vertex |-> base_vertex, label |-> LABEL_NONE,
     tree_edge |-> <<>>, tree_blossoms |-> NoneId, delta2_node |-> FALSE,
     vertex_dual_offset |-> 0,
     subblossoms |-> <<>>, edges |-> <<>>, dual_var |-> 0, delta4_node |-> FALSE]

\* isinstance(b, NonTrivialBlossom)
IsNonTrivial(c, b) == b >= c.graph.num_vertex

\* NonTrivialBlossom.vertices (explicit stack); Blossom.vertices for a trivial one.
RECURSIVE vertices_loop(_, _, _)
vertices_loop(c, stack, nodes) ==
    IF stack = <<>> THEN nodes
    ELSE LET subs == c.blossom[Last(stack)].subblossoms
             nt == SelectSeq(subs, LAMBDA s : IsNonTrivial(c, s))
             tv == SelectSeq(subs, LAMBDA s : ~IsNonTrivial(c, s))
         IN vertices_loop(c, ButLast(stack) \o nt,
                          nodes \o [i \in 1..Len(tv) |-> c.blossom[tv[i]].base_vertex])

vertices(c, b) ==
    IF IsNonTrivial(c, b) THEN vertices_loop(c, <<b>>, <<>>)
    ELSE <<c.blossom[b].base_vertex>>

(***************************************************************************)
(* MatchingContext.                                                        *)
(***************************************************************************)
\* "b.vertex_queue = ConcatenableQueue(b); b.vertex_queue.insert(x, math.inf)"
\* for the trivial blossoms x .. n-1.
RECURSIVE MatchingContext_queues(_, _, _)
MatchingContext_queues(S, x, n) ==
    IF x >= n THEN S
    ELSE MatchingContext_queues(CQ_insert(CQ_new_queue(S, x), x, x, Inf)[1], x + 1, n)

MatchingContext(graph) ==
    LET n == graph.num_vertex
        m == Len(graph.edges)
        V == 0..(n - 1)
        start_dual == MaxOf({graph.edges[e][3] : e \in 1..m})
    IN [graph |-> graph,
        vertex_mate |-> [x \in V |-> -1],
        blossom |-> [x \in V |-> Blossom(x)],
        nontrivial_blossom |-> {},
        next_blossom |-> n,
        tree_sets |-> <<>>,
        cq |-> MatchingContext_queues(CQ_empty_store, 0, n),
        start_vertex_dual_2x |-> start_dual,
        vertex_dual_2x |-> [x \in V |-> start_dual],
        delta_sum_2x |-> 0,
        delta2_queue |-> PQ_new,
        delta3_queue |-> PQ_new,
        delta3_node |-> [e \in 1..m |-> FALSE],
        delta4_queue |-> PQ_new,
        vertex_sedge_queue |-> [x \in V |-> PQ_new],
        vertex_sedge_node |-> [e \in 1..m |-> FALSE],
        scan_queue |-> <<>>,
        ok |-> TRUE]

top_level_blossom(c, x) == CQ_find(c.cq, x)

edge_pseudo_slack_2x(c, e) ==
    LET ed == c.graph.edges[e]
    IN c.vertex_dual_2x[ed[1]] + c.vertex_dual_2x[ed[2]] - 2 * ed[3]

\* delta2_add_edge, "if improved:" part after the vertex queue node is updated.
delta2_add_edge_blossom(c, prio, by) ==
    LET prio2 == prio + c.blossom[by].vertex_dual_offset
    IN IF c.blossom[by].label = LABEL_NONE
       THEN IF ~c.blossom[by].delta2_node
            THEN [c EXCEPT !.delta2_queue = PQ_insert(@, prio2, by),
                           !.blossom[by].delta2_node = TRUE]
            ELSE IF prio2 < PQ_node(c.delta2_queue, by).prio
            THEN [c EXCEPT !.delta2_queue = PQ_decrease_prio(@, by, prio2)]
            ELSE c
       ELSE c

delta2_add_edge(c, e, y, by) ==
    LET prio == edge_pseudo_slack_2x(c, e)
        improved == \/ PQ_empty(c.vertex_sedge_queue[y])
                    \/ PQ_find_min(c.vertex_sedge_queue[y]).prio > prio
        c1 == [Require(c, ~c.vertex_sedge_node[e]) EXCEPT
                  !.vertex_sedge_node[e] = TRUE,
                  !.vertex_sedge_queue[y] = PQ_insert(@, prio, e)]
    IN IF ~improved THEN c1
       ELSE delta2_add_edge_blossom([c1 EXCEPT !.cq = CQ_set_prio(@, y, prio)], prio, by)

\* delta2_remove_edge, "if by.label == LABEL_NONE:" part.
delta2_remove_edge_blossom(c, by) ==
    IF c.blossom[by].label # LABEL_NONE THEN c
    ELSE
      LET c3 == Require(c, c.blossom[by].delta2_node)
          bprio == CQ_min_prio(c.cq, by)
          bprio2 == bprio + c.blossom[by].vertex_dual_offset
      IN IF bprio < Inf
         THEN IF bprio2 > PQ_node(c.delta2_queue, by).prio
              THEN [c3 EXCEPT !.delta2_queue = PQ_increase_prio(@, by, bprio2)]
              ELSE c3
         ELSE [c3 EXCEPT !.delta2_queue = PQ_delete(@, by),
                         !.blossom[by].delta2_node = FALSE]

\* delta2_remove_edge after the edge left vertex_sedge_queue[y].
delta2_remove_edge_vertex(c, y, by) ==
    LET q == c.vertex_sedge_queue[y]
        prio == IF PQ_empty(q) THEN Inf ELSE PQ_find_min(q).prio
    IN IF ~(prio > c.cq.node[y].prio) THEN c
       ELSE delta2_remove_edge_blossom([c EXCEPT !.cq = CQ_set_prio(@, y, prio)], by)

delta2_remove_edge(c, e, y, by) ==
    IF ~c.vertex_sedge_node[e] THEN c
    ELSE delta2_remove_edge_vertex(
             [c EXCEPT !.vertex_sedge_queue[y] = PQ_delete(@, e),
                       !.vertex_sedge_node[e] = FALSE],
             y, by)

delta2_enable_blossom(c, b) ==
    LET c1 == Require(c, ~c.blossom[b].delta2_node)
        prio == CQ_min_prio(c1.cq, b)
    IN IF prio < Inf
       THEN [c1 EXCEPT !.delta2_queue = PQ_insert(@, prio + c1.blossom[b].vertex_dual_offset, b),
                       !.blossom[b].delta2_node = TRUE]
       ELSE c1

delta2_disable_blossom(c, b) ==
    IF c.blossom[b].delta2_node
    THEN [c EXCEPT !.delta2_queue = PQ_delete(@, b), !.blossom[b].delta2_node = FALSE]
    ELSE c

\* Variant: the queue of the vertex is cleared but the handles are kept.
delta2_clear_vertex_keep_nodes(c, x) ==
    [c EXCEPT !.vertex_sedge_queue[x] = PQ_new,
              !.cq = CQ_set_prio(@, x, Inf)]

\* "for e in adjacent_edges[x]: vertex_sedge_node[e] = None" is one update.
delta2_clear_vertex(c, x) ==
    [c EXCEPT !.vertex_sedge_queue[x] = PQ_new,
              !.vertex_sedge_node =
                  [e \in DOMAIN @ |->
                     IF e \in Range(c.graph.adjacent_edges[x]) THEN FALSE ELSE @[e]],
              !.cq = CQ_set_prio(@, x, Inf)]

\* Returns <<edge, slack_2x>>; <<NoneId, Inf>> when there is no edge.
delta2_get_min_edge(c) ==
    IF PQ_empty(c.delta2_queue) THEN <<NoneId, Inf>>
    ELSE LET delta2_node == PQ_find_min(c.delta2_queue)
             x == CQ_min_elem(c.cq, delta2_node.data)
         IN <<PQ_find_min(c.vertex_sedge_queue[x]).data,
              delta2_node.prio - c.delta_sum_2x>>

\* Variant: the edge enters delta3_queue with its full slack, not half of it.
delta3_add_edge_full_slack(c, e) ==
    IF c.delta3_node[e] THEN c
    ELSE LET prio_2x == edge_pseudo_slack_2x(c, e)
         IN [Require(c, prio_2x % 2 = 0) EXCEPT
                !.delta3_queue = PQ_insert(@, prio_2x, e),
                !.delta3_node[e] = TRUE]

delta3_add_edge(c, e) ==
    IF c.delta3_node[e] THEN c
    ELSE LET prio_2x == edge_pseudo_slack_2x(c, e)
         IN [Require(c, prio_2x % 2 = 0) EXCEPT
                !.delta3_queue = PQ_insert(@, prio_2x \div 2, e),
                !.delta3_node[e] = TRUE]

delta3_remove_edge(c, e) ==
    IF c.delta3_node[e]
    THEN [c EXCEPT !.delta3_queue = PQ_delete(@, e), !.delta3_node[e] = FALSE]
    ELSE c

\* Returns <<c, edge, slack>>: intra-blossom edges found at the head are deleted.
RECURSIVE delta3_get_min_edge(_)
delta3_get_min_edge(c) ==
    IF PQ_empty(c.delta3_queue) THEN <<c, NoneId, Inf>>
    ELSE LET delta3_node == PQ_find_min(c.delta3_queue)
             e == delta3_node.data
             bx == top_level_blossom(c, c.graph.edges[e][1])
             by == top_level_blossom(c, c.graph.edges[e][2])
             c1 == Require(c, c.blossom[bx].label = LABEL_S /\ c.blossom[by].label = LABEL_S)
         IN IF bx # by
            THEN <<c1, e, delta3_node.prio - c1.delta_sum_2x>>
            ELSE delta3_get_min_edge(
                     [c1 EXCEPT !.delta3_queue = PQ_delete(@, e), !.delta3_node[e] = FALSE])

(***************************************************************************)
(* Managing blossom labels.                                                *)
(***************************************************************************)
\* assign_blossom_label_s: "for x in vertices: vertex_dual_2x[x] += fixup; delta2_clear_vertex(x)"
RECURSIVE assign_blossom_label_s_loop(_, _, _, _)
assign_blossom_label_s_loop(c, vs, i, vertex_dual_fixup) ==
    IF i > Len(vs) THEN c
    ELSE assign_blossom_label_s_loop(
             delta2_clear_vertex(
                 [c EXCEPT !.vertex_dual_2x[vs[i]] = @ + vertex_dual_fixup], vs[i]),
             vs, i + 1, vertex_dual_fixup)

\* assign_blossom_label_s after "blossom.label = LABEL_S; delta2_disable_blossom(blossom)".
assign_blossom_label_s_duals(c, b) ==
    LET vertex_dual_fixup == c.delta_sum_2x + c.blossom[b].vertex_dual_offset
        vs == vertices(c, b)
    IN [assign_blossom_label_s_loop(
            [c EXCEPT !.blossom[b].dual_var =
                          IF IsNonTrivial(c, b) THEN @ - c.delta_sum_2x ELSE @,
                      !.blossom[b].vertex_dual_offset = 0],
            vs, 1, vertex_dual_fixup)
        EXCEPT !.scan_queue = @ \o vs]

assign_blossom_label_s(c, b) ==
    assign_blossom_label_s_duals(
        delta2_disable_blossom(
            [Require(c, c.blossom[b].parent = NoneId /\ c.blossom[b].label = LABEL_NONE)
                EXCEPT !.blossom[b].label = LABEL_S],
            b),
        b)

\* Variant: vertex_dual_offset is not prepared for the lazy T-vertex updates.
assign_blossom_label_t_duals_keep_offset(c, b) ==
    LET dv == c.blossom[b].dual_var + c.delta_sum_2x
    IN IF IsNonTrivial(c, b)
       THEN [Require(c, ~c.blossom[b].delta4_node) EXCEPT
                !.blossom[b].dual_var = dv,
                !.delta4_queue = PQ_insert(@, dv, b),
                !.blossom[b].delta4_node = TRUE]
       ELSE c

\* assign_blossom_label_t after "blossom.label = LABEL_T; delta2_disable_blossom(blossom)".
assign_blossom_label_t_duals(c, b) ==
    LET dv == c.blossom[b].dual_var + c.delta_sum_2x
        c2 == IF IsNonTrivial(c, b)
              THEN [Require(c, ~c.blossom[b].delta4_node) EXCEPT
                       !.blossom[b].dual_var = dv,
                       !.delta4_queue = PQ_insert(@, dv, b),
                       !.blossom[b].delta4_node = TRUE]
              ELSE c
    IN [c2 EXCEPT !.blossom[b].vertex_dual_offset = @ - c.delta_sum_2x]

assign_blossom_label_t(c, b) ==
    assign_blossom_label_t_duals(
        delta2_disable_blossom(
            [Require(c, c.blossom[b].parent = NoneId /\ c.blossom[b].label = LABEL_NONE)
                EXCEPT !.blossom[b].label = LABEL_T],
            b),
        b)

\* remove_blossom_label_s, loop body after "self.delta3_remove_edge(e)".
remove_label_s_edge_delta2(c, b, x, e, y) ==
    LET by == top_level_blossom(c, y)
    IN IF c.blossom[by].label = LABEL_S
       THEN delta2_add_edge(c, e, x, b)
       ELSE delta2_remove_edge(c, e, y, by)

\* Variant: the edge is left in the delta3 queue.
remove_label_s_edge_keep_delta3(c, b, x, e) ==
    LET ed == c.graph.edges[e]
        y == IF ed[1] # x THEN ed[1] ELSE ed[2]
    IN remove_label_s_edge_delta2(c, b, x, e, y)

\* The body of the loop over adjacent_edges[x] in remove_blossom_label_s.
remove_label_s_edge(c, b, x, e) ==
    LET ed == c.graph.edges[e]
        y == IF ed[1] # x THEN ed[1] ELSE ed[2]
    IN remove_label_s_edge_delta2(delta3_remove_edge(c, e), b, x, e, y)

RECURSIVE remove_label_s_edges_loop(_, _, _, _, _)
remove_label_s_edges_loop(c, b, x, es, i) ==
    IF i > Len(es) THEN c
    ELSE remove_label_s_edges_loop(remove_label_s_edge(c, b, x, es[i]), b, x, es, i + 1)

\* "for x in blossom.vertices(): vertex_dual_2x[x] += fixup; for e in adjacent_edges[x]: ..."
RECURSIVE remove_label_s_vertices_loop(_, _, _, _, _)
remove_label_s_vertices_loop(c, b, vs, i, vertex_dual_fixup) ==
    IF i > Len(vs) THEN c
    ELSE remove_label_s_vertices_loop(
             remove_label_s_edges_loop(
                 [c EXCEPT !.vertex_dual_2x[vs[i]] = @ + vertex_dual_fixup],
                 b, vs[i], c.graph.adjacent_edges[vs[i]], 1),
             b, vs, i + 1, vertex_dual_fixup)

remove_blossom_label_s(c, b) ==
    LET c0 == Require(c, c.blossom[b].parent = NoneId /\ c.blossom[b].label = LABEL_S)
        c2 == [c0 EXCEPT !.blossom[b].label = LABEL_NONE,
                         !.blossom[b].dual_var =
                             IF IsNonTrivial(c, b) THEN @ + c.delta_sum_2x ELSE @]
        c3 == Require(c2, c.blossom[b].vertex_dual_offset = 0)
    IN remove_label_s_vertices_loop(c3, b, vertices(c, b), 1, 0 - c.delta_sum_2x)

remove_blossom_label_t(c, b) ==
    LET c0 == Require(c, c.blossom[b].parent = NoneId /\ c.blossom[b].label = LABEL_T)
        c1 == [c0 EXCEPT !.blossom[b].label = LABEL_NONE]
        c2 == IF IsNonTrivial(c, b)
              THEN [Require(c1, c.blossom[b].delta4_node) EXCEPT
                       !.delta4_queue = PQ_delete(@, b),
                       !.blossom[b].delta4_node = FALSE,
                       !.blossom[b].dual_var = @ - c.delta_sum_2x]
              ELSE c1
    IN delta2_enable_blossom(
           [c2 EXCEPT !.blossom[b].vertex_dual_offset = @ + c.delta_sum_2x], b)

change_s_blossom_to_subblossom(c, b) ==
    LET c0 == Require(c, c.blossom[b].parent = NoneId /\ c.blossom[b].label = LABEL_S)
    IN [c0 EXCEPT !.blossom[b].label = LABEL_NONE,
                  !.blossom[b].dual_var =
                      IF IsNonTrivial(c, b) THEN @ + c.delta_sum_2x ELSE @]

reset_blossom_label(c, b) ==
    LET c0 == Require(c, c.blossom[b].parent = NoneId /\ c.blossom[b].label # LABEL_NONE)
    IN IF c.blossom[b].label = LABEL_S
       THEN remove_blossom_label_s(c0, b)
       ELSE remove_blossom_label_t(c0, b)

\* Variant: the blossom loses its label but keeps its tree_edge.
remove_alternating_tree_blossom_keep_edge(c, tree, b) ==
    [reset_blossom_label(
         Require(c, c.blossom[b].label # LABEL_NONE /\ c.blossom[b].tree_blossoms = tree), b)
     EXCEPT !.blossom[b].tree_blossoms = NoneId]

\* The body of the loop of remove_alternating_tree.
remove_alternating_tree_blossom(c, tree, b) ==
    [reset_blossom_label(
         Require(c, c.blossom[b].label # LABEL_NONE /\ c.blossom[b].tree_blossoms = tree), b)
     EXCEPT !.blossom[b].tree_edge = <<>>,
            !.blossom[b].tree_blossoms = NoneId]

\* "order" is the order in which the set tree_blossoms (tree id "tree") is iterated.
RECURSIVE remove_alternating_tree_loop(_, _, _, _)
remove_alternating_tree_loop(c, tree, order, i) ==
    IF i > Len(order) THEN c
    ELSE remove_alternating_tree_loop(
             remove_alternating_tree_blossom(c, tree, order[i]), tree, order, i + 1)

remove_alternating_tree(c, tree, order) == remove_alternating_tree_loop(c, tree, order, 1)

(***************************************************************************)
(* trace_alternating_paths.  marked is the list marked_blossoms; a blossom *)
(* has marker = True exactly while it is on that list.                     *)
(* The loop returns <<xedges, yedges, first_common>>.                      *)
(***************************************************************************)
RECURSIVE trace_loop(_, _, _, _, _, _)
trace_loop(c, x, y, xedges, yedges, marked) ==
    IF x = -1 /\ y = -1 THEN <<xedges, yedges, NoneId>>
    ELSE
      LET bx == top_level_blossom(c, x)
      IN IF bx \in Range(marked) THEN <<xedges, yedges, bx>>
         ELSE
           LET te == c.blossom[bx].tree_edge
               xedges1 == IF te = <<>> THEN xedges ELSE Append(xedges, te)
               x1 == IF te = <<>> THEN -1 ELSE te[1]
           IN IF y # -1
              THEN trace_loop(c, y, x1, yedges, xedges1, Append(marked, bx))
              ELSE trace_loop(c, x1, y, xedges1, yedges, Append(marked, bx))

RECURSIVE trace_trim(_, _, _)
trace_trim(c, yedges, first_common) ==
    IF top_level_blossom(c, Last(yedges)[1]) # first_common
    THEN trace_trim(c, ButLast(yedges), first_common)
    ELSE yedges

\* Returns the AlternatingPath [edges, is_cycle, ok]; ok is FALSE when an assert fails.
trace_alternating_paths(c, x, y) ==
    LET r == trace_loop(c, x, y, << <<x, y>> >>, << <<y, x>> >>, <<>>)
        xedges == r[1]
        first_common == r[3]
        yedges == IF first_common # NoneId THEN trace_trim(c, r[2], first_common) ELSE r[2]
        ytail == Tail(yedges)
        path_edges == Reverse(xedges) \o [i \in 1..Len(ytail) |-> <<ytail[i][2], ytail[i][1]>>]
    IN [edges |-> path_edges,
        is_cycle |-> first_common # NoneId,
        ok |-> /\ Len(path_edges) % 2 = 1
               /\ (first_common # NoneId =>
                     top_level_blossom(c, Last(xedges)[1]) = first_common)]

(***************************************************************************)
(* Merge and expand blossoms.                                              *)
(***************************************************************************)
\* make_blossom: the body of "for sub in subblossoms:" that relabels a sub-blossom.
make_blossom_label(c, sub) ==
    change_s_blossom_to_subblossom(
        IF c.blossom[sub].label = LABEL_T
        THEN assign_blossom_label_s(remove_blossom_label_t(c, sub), sub)
        ELSE c,
        sub)

RECURSIVE make_blossom_labels_loop(_, _, _)
make_blossom_labels_loop(c, subblossoms, i) ==
    IF i > Len(subblossoms) THEN c
    ELSE make_blossom_labels_loop(make_blossom_label(c, subblossoms[i]), subblossoms, i + 1)

\* Variant: the sub-blossoms keep their tree_edge and tree_blossoms.
make_blossom_create_keep_tree(c, path, subblossoms) ==
    LET b == c.next_blossom
        first == subblossoms[1]
        tree_blossoms == c.blossom[first].tree_blossoms
        newb == [Blossom(c.blossom[first].base_vertex) EXCEPT
                    !.subblossoms = subblossoms,
                    !.edges = path.edges,
                    !.label = LABEL_S,
                    !.dual_var = 0 - c.delta_sum_2x,
                    !.tree_edge = c.blossom[first].tree_edge,
                    !.tree_blossoms = tree_blossoms]
    IN [Require(c, tree_blossoms # NoneId) EXCEPT
          !.blossom = [x \in (DOMAIN @) \cup {b} |->
                         IF x = b THEN newb
                         ELSE IF x \in Range(subblossoms)
                         THEN [@[x] EXCEPT !.parent = b]
                         ELSE @[x]],
          !.next_blossom = b + 1,
          !.nontrivial_blossom = @ \cup {b},
          !.tree_sets[tree_blossoms] = (@ \cup {b}) \ Range(subblossoms),
          !.cq = CQ_merge(CQ_new_queue(@, b), b, subblossoms)]

\* make_blossom from "blossom = NonTrivialBlossom(subblossoms, path.edges)" on:
\* the new blossom takes the place of its sub-blossoms in the tree, and their
\* vertex queues are merged into its queue.
make_blossom_create(c, path, subblossoms) ==
    LET b == c.next_blossom
        first == subblossoms[1]
        tree_blossoms == c.blossom[first].tree_blossoms
        newb == [Blossom(c.blossom[first].base_vertex) EXCEPT
                    !.subblossoms = subblossoms,
                    !.edges = path.edges,
                    !.label = LABEL_S,
                    !.dual_var = 0 - c.delta_sum_2x,
                    !.tree_edge = c.blossom[first].tree_edge,
                    !.tree_blossoms = tree_blossoms]
    IN [Require(c, tree_blossoms # NoneId) EXCEPT
          !.blossom = [x \in (DOMAIN @) \cup {b} |->
                         IF x = b THEN newb
                         ELSE IF x \in Range(subblossoms)
                         THEN [@[x] EXCEPT !.parent = b,
                                           !.tree_edge = <<>>,
                                           !.tree_blossoms = NoneId]
                         ELSE @[x]],
          !.next_blossom = b + 1,
          !.nontrivial_blossom = @ \cup {b},
          !.tree_sets[tree_blossoms] = (@ \cup {b}) \ Range(subblossoms),
          !.cq = CQ_merge(CQ_new_queue(@, b), b, subblossoms)]

make_blossom_subs(c, path, subblossoms, subblossoms_next) ==
    make_blossom_create(
        make_blossom_labels_loop(
            Require(c, /\ Len(path.edges) % 2 = 1 /\ Len(path.edges) >= 3
                       /\ subblossoms[1] = Last(subblossoms_next)
                       /\ Tail(subblossoms) = ButLast(subblossoms_next)
                       /\ c.blossom[subblossoms[1]].label = LABEL_S),
            subblossoms, 1),
        path, subblossoms)

make_blossom(c, path) ==
    make_blossom_subs(c, path,
        [i \in 1..Len(path.edges) |-> top_level_blossom(c, path.edges[i][1])],
        [i \in 1..Len(path.edges) |-> top_level_blossom(c, path.edges[i][2])])

\* Returns <<nodes, edges>>.
find_path_through_blossom(c, blossom, sub) ==
    LET subs == c.blossom[blossom].subblossoms
        es == c.blossom[blossom].edges
        p == IndexOf(subs, sub) - 1
        back == Reverse(SubSeq(es, 1, p))
    IN IF p % 2 = 0
       THEN << Reverse(SubSeq(subs, 1, p + 1)),
               [i \in 1..Len(back) |-> <<back[i][2], back[i][1]>>] >>
       ELSE << SubSeq(subs, p + 1, Len(subs)) \o <<subs[1]>>,
               SubSeq(es, p + 1, Len(es)) >>

\* Variant: the sub-blossom keeps the expanded blossom as its parent.
expand_unlabeled_sub_keep_parent(c, sub, vertex_dual_offset) ==
    delta2_enable_blossom(
        [Require(c, c.blossom[sub].label = LABEL_NONE
                    /\ c.blossom[sub].vertex_dual_offset = 0)
            EXCEPT !.blossom[sub].vertex_dual_offset = vertex_dual_offset],
        sub)

\* The expanded blossom object stays referenced by its caller; it leaves
\* c.blossom when the step that expanded it ends (see Collect).
expand_unlabeled_sub(c, sub, vertex_dual_offset) ==
    delta2_enable_blossom(
        [Require(c, c.blossom[sub].label = LABEL_NONE
                    /\ c.blossom[sub].vertex_dual_offset = 0)
            EXCEPT !.blossom[sub].parent = NoneId,
                   !.blossom[sub].vertex_dual_offset = vertex_dual_offset],
        sub)

RECURSIVE expand_unlabeled_loop(_, _, _, _)
expand_unlabeled_loop(c, subblossoms, i, vertex_dual_offset) ==
    IF i > Len(subblossoms) THEN c
    ELSE expand_unlabeled_loop(
             expand_unlabeled_sub(c, subblossoms[i], vertex_dual_offset),
             subblossoms, i + 1, vertex_dual_offset)

\* expand_unlabeled_blossom after "self.delta2_disable_blossom(blossom)".
expand_unlabeled_split(c, b) ==
    [expand_unlabeled_loop(
         [c EXCEPT !.cq = CQ_split(@, b), !.blossom[b].vertex_dual_offset = 0],
         c.blossom[b].subblossoms, 1, c.blossom[b].vertex_dual_offset)
     EXCEPT !.cq = CQ_del_queue(@, b),
            !.nontrivial_blossom = @ \ {b}]

expand_unlabeled_blossom(c, b) ==
    expand_unlabeled_split(
        delta2_disable_blossom(
            Require(c, c.blossom[b].parent = NoneId /\ c.blossom[b].label = LABEL_NONE), b),
        b)

\* Garbage collection: expanded blossom objects and tree_blossoms sets that
\* no blossom refers to any more.
Collect(c) ==
    LET live == (0..(c.graph.num_vertex - 1)) \cup c.nontrivial_blossom
        trees == {c.blossom[b].tree_blossoms : b \in live} \ {NoneId}
    IN [c EXCEPT !.blossom = [b \in live |-> @[b]],
                 !.tree_sets = [t \in trees |-> @[t]]]

(***************************************************************************)
(* Augmenting.                                                             *)
(***************************************************************************)
\* The loop "for p in range(0, len(path_edges), 2)" of augment_blossom_rec;
\* st is [c, stack], p is the source's p.
RECURSIVE augment_blossom_rec_loop(_, _, _, _, _)
augment_blossom_rec_loop(c, stack, path_nodes, path_edges, p) ==
    IF p >= Len(path_edges) THEN [c |-> c, stack |-> stack]
    ELSE LET x == path_edges[p + 2][1]
             y == path_edges[p + 2][2]
             bx == path_nodes[p + 2]
             by == path_nodes[p + 3]
         IN augment_blossom_rec_loop(
                [c EXCEPT !.vertex_mate[x] = y, !.vertex_mate[y] = x],
                stack \o (IF IsNonTrivial(c, bx) THEN << <<bx, x>> >> ELSE <<>>)
                      \o (IF IsNonTrivial(c, by) THEN << <<by, y>> >> ELSE <<>>),
                path_nodes, path_edges, p + 2)

\* Variant: the sub-blossom list is rotated but the base vertex is kept.
augment_blossom_rec_rotate_keep_base(st, blossom, sub) ==
    LET subs == st.c.blossom[blossom].subblossoms
        es == st.c.blossom[blossom].edges
        p == IndexOf(subs, sub) - 1
    IN [c |-> [st.c EXCEPT
                 !.blossom[blossom].subblossoms =
                     SubSeq(subs, p + 1, Len(subs)) \o SubSeq(subs, 1, p),
                 !.blossom[blossom].edges =
                     SubSeq(es, p + 1, Len(es)) \o SubSeq(es, 1, p)],
        stack |-> st.stack]

\* augment_blossom_rec, the rotation of the sub-blossom list after the loop.
augment_blossom_rec_rotate(st, blossom, sub) ==
    LET subs == st.c.blossom[blossom].subblossoms
        es == st.c.blossom[blossom].edges
        p == IndexOf(subs, sub) - 1
    IN [c |-> [st.c EXCEPT
                 !.blossom[blossom].subblossoms =
                     SubSeq(subs, p + 1, Len(subs)) \o SubSeq(subs, 1, p),
                 !.blossom[blossom].edges =
                     SubSeq(es, p + 1, Len(es)) \o SubSeq(es, 1, p),
                 !.blossom[blossom].base_vertex = st.c.blossom[sub].base_vertex],
        stack |-> st.stack]

augment_blossom_rec_path(c, blossom, sub, stack, path) ==
    augment_blossom_rec_rotate(
        augment_blossom_rec_loop(c, stack, path[1], path[2], 0), blossom, sub)

\* Returns [c, stack].
augment_blossom_rec(c, blossom, sub, stack) ==
    augment_blossom_rec_path(c, blossom, sub, stack,
                             find_path_through_blossom(c, blossom, sub))

RECURSIVE augment_blossom_loop(_, _)
augment_blossom_next(st) == augment_blossom_loop(st.c, st.stack)

augment_blossom_loop(c, stack) ==
    IF stack = <<>> THEN c
    ELSE LET outer_blossom == Last(stack)[1]
             sub == Last(stack)[2]
             blossom == c.blossom[sub].parent
         IN augment_blossom_next(
                augment_blossom_rec(
                    Require(c, blossom # NoneId), blossom, sub,
                    IF blossom # outer_blossom
                    THEN Append(ButLast(stack), <<outer_blossom, blossom>>)
                    ELSE ButLast(stack)))

augment_blossom(c, blossom, sub) == augment_blossom_loop(c, << <<blossom, sub>> >>)

\* Variant: only the mate of x is recorded.
augment_matching_edge_y_one_sided(c, x, y) ==
    LET by == top_level_blossom(c, y)
    IN [(IF IsNonTrivial(c, by) THEN augment_blossom(c, by, y) ELSE c)
        EXCEPT !.vertex_mate[x] = y]

\* augment_matching: "by = top_level_blossom(y) ..." and the two vertex_mate updates.
augment_matching_edge_y(c, x, y) ==
    LET by == top_level_blossom(c, y)
    IN [(IF IsNonTrivial(c, by) THEN augment_blossom(c, by, y) ELSE c)
        EXCEPT !.vertex_mate[x] = y, !.vertex_mate[y] = x]

\* The body of "for (x, y) in path.edges[0::2]".
augment_matching_edge(c, x, y) ==
    LET bx == top_level_blossom(c, x)
    IN augment_matching_edge_y(
           IF IsNonTrivial(c, bx) THEN augment_blossom(c, bx, x) ELSE c, x, y)

RECURSIVE augment_matching_loop(_, _, _)
augment_matching_loop(c, edges, i) ==
    IF i > Len(edges) THEN c
    ELSE augment_matching_loop(
             augment_matching_edge(c, edges[i][1], edges[i][2]), edges, i + 2)

augment_matching(c, path) ==
    augment_matching_loop(
        Require(c, /\ Len(path.edges) % 2 = 1
                   /\ c.vertex_mate[c.blossom[
                          top_level_blossom(c, path.edges[1][1])].base_vertex] = -1
                   /\ c.vertex_mate[c.blossom[
                          top_level_blossom(c, Last(path.edges)[2])].base_vertex] = -1),
        path.edges, 1)

(***************************************************************************)
(* Alternating tree.                                                       *)
(***************************************************************************)
\* extend_tree_t_to_s after "self.assign_blossom_label_s(bx)".
extend_tree_t_to_s_link(c, x, bx) ==
    LET y == c.vertex_mate[x]
        by == top_level_blossom(c, y)
        tree == c.blossom[by].tree_blossoms
    IN [Require(c, y # -1 /\ c.blossom[by].label = LABEL_T /\ tree # NoneId) EXCEPT
          !.blossom[bx].tree_edge = <<y, x>>,
          !.blossom[bx].tree_blossoms = tree,
          !.tree_sets[tree] = @ \cup {bx}]

extend_tree_t_to_s(c, x) ==
    LET bx == top_level_blossom(c, x)
    IN extend_tree_t_to_s_link(assign_blossom_label_s(c, bx), x, bx)

\* Variant: no blossom is expanded before label T is assigned.
expand_zero_dual_skip(c, y) == c

\* "while isinstance(by, NonTrivialBlossom) and (by.dual_var == 0)"
RECURSIVE expand_zero_dual(_, _)
expand_zero_dual(c, y) ==
    LET by == top_level_blossom(c, y)
    IN IF IsNonTrivial(c, by) /\ c.blossom[by].dual_var = 0
       THEN expand_zero_dual(expand_unlabeled_blossom(c, by), y)
       ELSE c

\* extend_tree_s_to_t, "z = self.vertex_mate[by.base_vertex]; self.extend_tree_t_to_s(z)".
extend_tree_s_to_t_mate(c, by) ==
    LET z == c.vertex_mate[c.blossom[by].base_vertex]
    IN extend_tree_t_to_s(Require(c, z # -1), z)

\* Variant: the tree edge is also recorded as the mate of y.
extend_tree_s_to_t_link_mate(c, x, y, bx, by) ==
    LET tree == c.blossom[bx].tree_blossoms
    IN [extend_tree_s_to_t_mate(
            [Require(c, tree # NoneId) EXCEPT
                !.blossom[by].tree_edge = <<x, y>>,
                !.blossom[by].tree_blossoms = tree,
                !.tree_sets[tree] = @ \cup {by}],
            by)
        EXCEPT !.vertex_mate[y] = x]

\* extend_tree_s_to_t after "self.assign_blossom_label_t(by)".
extend_tree_s_to_t_link(c, x, y, bx, by) ==
    LET tree == c.blossom[bx].tree_blossoms
    IN extend_tree_s_to_t_mate(
           [Require(c, tree # NoneId) EXCEPT
               !.blossom[by].tree_edge = <<x, y>>,
               !.blossom[by].tree_blossoms = tree,
               !.tree_sets[tree] = @ \cup {by}],
           by)

\* extend_tree_s_to_t after the loop that expands zero-dual blossoms.
extend_tree_s_to_t_label(c, x, y, bx) ==
    LET by == top_level_blossom(c, y)
    IN extend_tree_s_to_t_link(assign_blossom_label_t(c, by), x, y, bx, by)

extend_tree_s_to_t(c, x, y) ==
    LET bx == top_level_blossom(c, x)
    IN extend_tree_s_to_t_label(
           expand_zero_dual(Require(c, c.blossom[bx].label = LABEL_S), y), x, y, bx)

\* add_s_to_s_edge after the alternating paths were traced.
add_s_to_s_edge_path(c, bx, by, path, ox, oy) ==
    LET tx == c.blossom[bx].tree_blossoms
        ty == c.blossom[by].tree_blossoms
        c0 == Require(c, /\ c.blossom[bx].label = LABEL_S
                         /\ c.blossom[by].label = LABEL_S
                         /\ bx # by /\ path.ok
                         /\ tx # NoneId /\ ty # NoneId)
    IN IF tx = ty
       THEN [c |-> make_blossom(Require(c0, path.is_cycle), path), augmented |-> FALSE]
       ELSE [c |-> augment_matching(
                       Require(remove_alternating_tree(
                                   remove_alternating_tree(c0, tx, ox), ty, oy),
                               ~path.is_cycle),
                       path),
             augmented |-> TRUE]

\* ox and oy are the orders in which the sets bx.tree_blossoms and
\* by.tree_blossoms are iterated by remove_alternating_tree.
\* Returns [c, augmented].
add_s_to_s_edge(c, x, y, ox, oy) ==
    add_s_to_s_edge_path(c, top_level_blossom(c, x), top_level_blossom(c, y),
                         trace_alternating_paths(c, x, y), ox, oy)

\* Variant: the sub-blossom gets label T and joins the tree without a tree_edge.
expand_t_label_keep_edge(c, sub, tree_edge, tree) ==
    [assign_blossom_label_t(c, sub) EXCEPT
        !.blossom[sub].tree_blossoms = tree,
        !.tree_sets[tree] = @ \cup {sub}]

\* The loop of expand_t_blossom over the path from "sub" to the base; p as in the source.
\* "assign_blossom_label_t(sub); sub.tree_edge = ...; sub.tree_blossoms = ...; add(sub)"
expand_t_label(c, sub, tree_edge, tree) ==
    [assign_blossom_label_t(c, sub) EXCEPT
        !.blossom[sub].tree_edge = tree_edge,
        !.blossom[sub].tree_blossoms = tree,
        !.tree_sets[tree] = @ \cup {sub}]

RECURSIVE expand_t_loop(_, _, _, _, _)
expand_t_loop(c, path_nodes, path_edges, tree, p) ==
    IF p >= Len(path_edges) THEN c
    ELSE expand_t_loop(
             expand_t_label(extend_tree_t_to_s(c, path_edges[p + 1][2]),
                            path_nodes[p + 3], path_edges[p + 2], tree),
             path_nodes, path_edges, tree, p + 2)

expand_t_blossom_path(c, path, tree) == expand_t_loop(c, path[1], path[2], tree, 0)

\* expand_t_blossom from "sub = self.top_level_blossom(y)" to the path.
expand_t_blossom_sub(c, b, sub, tree) ==
    expand_t_blossom_path(
        expand_t_label(Require(c, c.blossom[b].tree_edge # <<>>), sub,
                       c.blossom[b].tree_edge, tree),
        find_path_through_blossom(c, b, sub), tree)

\* expand_t_blossom after "self.expand_unlabeled_blossom(blossom)".
expand_t_blossom_relabel(c, b, tree) ==
    expand_t_blossom_sub(c, b, top_level_blossom(c, c.blossom[b].tree_edge[2]), tree)

expand_t_blossom(c, b) ==
    LET tree == c.blossom[b].tree_blossoms
    IN expand_t_blossom_relabel(
           expand_unlabeled_blossom(
               remove_blossom_label_t(
                   [Require(c, /\ c.blossom[b].parent = NoneId
                               /\ c.blossom[b].label = LABEL_T
                               /\ ~c.blossom[b].delta2_node
                               /\ tree # NoneId)
                       EXCEPT !.tree_sets[tree] = @ \ {b}],
                   b),
               b),
           b, tree)

(***************************************************************************)
(* Scanning and delta steps.                                               *)
(***************************************************************************)
\* The body of "for e in adjacent_edges[x]" in scan_new_s_vertices.
scan_edge(c, x, bx, e) ==
    LET ed == c.graph.edges[e]
        y == IF ed[1] # x THEN ed[1] ELSE ed[2]
        by == top_level_blossom(c, y)
    IN IF bx = by THEN c
       ELSE IF c.blossom[by].label = LABEL_S
       THEN delta3_add_edge(c, e)
       ELSE delta2_add_edge(c, e, y, by)

RECURSIVE scan_edges_loop(_, _, _, _, _)
scan_edges_loop(c, x, bx, es, i) ==
    IF i > Len(es) THEN c
    ELSE scan_edges_loop(scan_edge(c, x, bx, es[i]), x, bx, es, i + 1)

\* The body of "for x in self.scan_queue".
scan_vertex(c, x) ==
    LET bx == top_level_blossom(c, x)
    IN scan_edges_loop(Require(c, c.blossom[bx].label = LABEL_S),
                       x, bx, c.graph.adjacent_edges[x], 1)

RECURSIVE scan_vertices_loop(_, _, _)
scan_vertices_loop(c, queue, i) ==
    IF i > Len(queue) THEN c
    ELSE scan_vertices_loop(scan_vertex(c, queue[i]), queue, i + 1)

\* Variant: the scan queue is not emptied after the scan.
scan_new_s_vertices_keep_queue(c) == scan_vertices_loop(c, c.scan_queue, 1)

scan_new_s_vertices(c) ==
    [scan_vertices_loop(c, c.scan_queue, 1) EXCEPT !.scan_queue = <<>>]

\* calc_dual_delta_step, delta1 and delta2: [delta_type, delta_2x, delta_edge, delta_blossom].
calc_dual_delta_step_delta2(c, r2) ==
    IF r2[1] # NoneId /\ r2[2] <= c.start_vertex_dual_2x - c.delta_sum_2x
    THEN [delta_type |-> 2, delta_2x |-> r2[2],
          delta_edge |-> r2[1], delta_blossom |-> NoneId]
    ELSE [delta_type |-> 1, delta_2x |-> c.start_vertex_dual_2x - c.delta_sum_2x,
          delta_edge |-> NoneId, delta_blossom |-> NoneId]

\* Variant: delta3 replaces the earlier candidate only if strictly smaller.
calc_dual_delta_step_delta3_strict(d, r3) ==
    IF r3[2] # NoneId /\ r3[3] < d.delta_2x
    THEN [d EXCEPT !.delta_type = 3, !.delta_2x = r3[3], !.delta_edge = r3[2]]
    ELSE d

\* calc_dual_delta_step, delta3; r3 is what delta3_get_min_edge returned.
calc_dual_delta_step_delta3(d, r3) ==
    IF r3[2] # NoneId /\ r3[3] <= d.delta_2x
    THEN [d EXCEPT !.delta_type = 3, !.delta_2x = r3[3], !.delta_edge = r3[2]]
    ELSE d

\* Variant: delta4 is chosen without lowering delta_2x to the blossom's dual.
calc_dual_delta_step_delta4_keep_delta(c, d) ==
    IF PQ_empty(c.delta4_queue) THEN [c |-> c] @@ d
    ELSE LET blossom == PQ_find_min(c.delta4_queue).data
             blossom_dual == c.blossom[blossom].dual_var - c.delta_sum_2x
             c4 == Require(c, c.blossom[blossom].label = LABEL_T
                              /\ c.blossom[blossom].parent = NoneId)
         IN IF blossom_dual <= d.delta_2x
            THEN [c |-> c4, delta_type |-> 4, delta_2x |-> d.delta_2x,
                  delta_edge |-> d.delta_edge, delta_blossom |-> blossom]
            ELSE [c |-> c4] @@ d

\* calc_dual_delta_step, delta4.
calc_dual_delta_step_delta4(c, d) ==
    IF PQ_empty(c.delta4_queue) THEN [c |-> c] @@ d
    ELSE LET blossom == PQ_find_min(c.delta4_queue).data
             blossom_dual == c.blossom[blossom].dual_var - c.delta_sum_2x
             c4 == Require(c, c.blossom[blossom].label = LABEL_T
                              /\ c.blossom[blossom].parent = NoneId)
         IN IF blossom_dual <= d.delta_2x
            THEN [c |-> c4, delta_type |-> 4, delta_2x |-> blossom_dual,
                  delta_edge |-> d.delta_edge, delta_blossom |-> blossom]
            ELSE [c |-> c4] @@ d

calc_dual_delta_step_queues(d2, r3) ==
    calc_dual_delta_step_delta4(r3[1], calc_dual_delta_step_delta3(d2, r3))

\* Returns [c, delta_type, delta_2x, delta_edge, delta_blossom].
calc_dual_delta_step(c) ==
    calc_dual_delta_step_queues(
        calc_dual_delta_step_delta2(c, delta2_get_min_edge(c)),
        delta3_get_min_edge(c))

(***************************************************************************)
(* Main algorithm: start, the substage of run_stage, cleanup.              *)
(***************************************************************************)
\* The body of "for x in range(num_vertex)" in start.
start_vertex(c, x) ==
    LET bx == top_level_blossom(c, x)
    IN [assign_blossom_label_s(
            Require(c, c.vertex_mate[x] = -1 /\ c.blossom[bx].base_vertex = x), bx)
        EXCEPT !.blossom[bx].tree_edge = <<>>,
               !.blossom[bx].tree_blossoms = x,
               !.tree_sets = @ @@ (x :> {bx})]

RECURSIVE start_loop(_, _)
start_loop(c, x) ==
    IF x >= c.graph.num_vertex THEN c ELSE start_loop(start_vertex(c, x), x + 1)

start(c) == start_loop(c, 0)

\* "self.delta_sum_2x += delta_2x"
substage_delta_sum(d) == [d EXCEPT !.c.delta_sum_2x = @ + d.delta_2x]

\* First half of a substage of run_stage: scan, compute the delta step and add it
\* to the running sum.  Returns [c, delta_type, delta_2x, delta_edge, delta_blossom].
substage_delta(c) == substage_delta_sum(calc_dual_delta_step(scan_new_s_vertices(c)))

\* "(x, y, _w) = edges[delta_edge]; if top_level_blossom(x).label != LABEL_S: swap"
substage_delta2(c, delta_edge) ==
    LET ed == c.graph.edges[delta_edge]
        swap == c.blossom[top_level_blossom(c, ed[1])].label # LABEL_S
    IN extend_tree_s_to_t(c, IF swap THEN ed[2] ELSE ed[1], IF swap THEN ed[1] ELSE ed[2])

\* Returns [c, augmented].
substage_delta3(c, delta_edge, ox, oy) ==
    add_s_to_s_edge(c, c.graph.edges[delta_edge][1], c.graph.edges[delta_edge][2], ox, oy)

substage_delta4(c, delta_blossom) ==
    expand_t_blossom(Require(c, delta_blossom # NoneId), delta_blossom)

\* Variant: the offset is applied to the vertices but is not reset.
cleanup_blossom_offset_keep_offset(c, b) ==
    LET vertex_dual_offset == c.blossom[b].vertex_dual_offset
        vs == Range(vertices(c, b))
    IN [c EXCEPT !.vertex_dual_2x =
                     IF vertex_dual_offset # 0
                     THEN [x \in DOMAIN @ |->
                             IF x \in vs THEN @[x] + vertex_dual_offset ELSE @[x]]
                     ELSE @]

\* cleanup: "for x in blossom.vertices(): vertex_dual_2x[x] += vertex_dual_offset" and
\* "blossom.vertex_dual_offset = 0".
cleanup_blossom_offset(c, b) ==
    LET vertex_dual_offset == c.blossom[b].vertex_dual_offset
        vs == Range(vertices(c, b))
    IN [c EXCEPT !.vertex_dual_2x =
                     IF vertex_dual_offset # 0
                     THEN [x \in DOMAIN @ |->
                             IF x \in vs THEN @[x] + vertex_dual_offset ELSE @[x]]
                     ELSE @,
                 !.blossom[b].vertex_dual_offset = 0]

\* cleanup after the label of the blossom was reset.
cleanup_blossom_clear(c, b) ==
    cleanup_blossom_offset(
        [Require(c, c.blossom[b].label = LABEL_NONE) EXCEPT
            !.blossom[b].tree_edge = <<>>,
            !.blossom[b].tree_blossoms = NoneId],
        b)

\* The body of "for blossom in itertools.chain(trivial_blossom, nontrivial_blossom)".
cleanup_blossom(c, b) ==
    cleanup_blossom_clear(
        IF c.blossom[b].parent = NoneId /\ c.blossom[b].label # LABEL_NONE
        THEN reset_blossom_label(c, b)
        ELSE c,
        b)

RECURSIVE cleanup_loop(_, _, _)
cleanup_loop(c, blossoms, i) ==
    IF i > Len(blossoms) THEN c
    ELSE cleanup_loop(cleanup_blossom(c, blossoms[i]), blossoms, i + 1)

\* "assert self.delta2_queue.empty()" and the two that follow.
cleanup_queues(c) ==
    Require(c, /\ PQ_empty(c.delta2_queue)
               /\ PQ_empty(c.delta3_queue)
               /\ PQ_empty(c.delta4_queue))

\* "order" is the order in which the set nontrivial_blossom is iterated.
cleanup(c, order) ==
    cleanup_queues(
        cleanup_loop(Require(c, c.scan_queue = <<>>),
                     [i \in 1..c.graph.num_vertex |-> i - 1] \o order, 1))

\* Variant: every edge whose first endpoint is matched is reported.
ExtractPairs_matched_x(c) ==
    LET sel == SelectSeq(c.graph.edges, LAMBDA ed : c.vertex_mate[ed[1]] # -1)
    IN [i \in 1..Len(sel) |-> <<sel[i][1], sel[i][2]>>]

\* Variant: only edges given as (x, y) with x < y are reported.
ExtractPairs_forward(c) ==
    LET sel == SelectSeq(c.graph.edges,
                         LAMBDA ed : c.vertex_mate[ed[1]] = ed[2] /\ ed[1] < ed[2])
    IN [i \in 1..Len(sel) |-> <<sel[i][1], sel[i][2]>>]

\* "[(x, y) for (x, y, _w) in edges if ctx.vertex_mate[x] == y]"
ExtractPairs(c) ==
    LET sel == SelectSeq(c.graph.edges, LAMBDA ed : c.vertex_mate[ed[1]] = ed[2])
    IN [i \in 1..Len(sel) |-> <<sel[i][1], sel[i][2]>>]

(***************************************************************************)
(* verify_optimum and _verify_blossom_edges.                               *)
(* The state of the descent is st = [stack, vertex_depth, path_sum_dual,   *)
(* path_num_matched, edge_slack_2x, failed]; the Python lists              *)
(* path_sum_dual and path_num_matched are indexed from 0, so element d of  *)
(* the source is element d+1 here.                                         *)
(***************************************************************************)
\* The body of "for e in adjacent_edges[v]" in _verify_blossom_edges.
verify_scan_edge(c, st, v, e) ==
    LET x == c.graph.edges[e][1]
        y == c.graph.edges[e][2]
        edge_depth == st.vertex_depth[y]
    IN IF x = v /\ edge_depth > 0
       THEN [st EXCEPT
               !.edge_slack_2x[e] = @ + 2 * st.path_sum_dual[edge_depth + 1],
               !.path_num_matched[edge_depth + 1] =
                   IF c.vertex_mate[x] = y THEN @ + 1 ELSE @]
       ELSE st

RECURSIVE verify_scan_loop(_, _, _, _, _)
verify_scan_loop(c, st, v, es, i) ==
    IF i > Len(es) THEN st
    ELSE verify_scan_loop(c, verify_scan_edge(c, st, v, es[i]), v, es, i + 1)

verify_scan_vertex(c, st, v, depth) ==
    verify_scan_loop(c, st, v, c.graph.adjacent_edges[v], 1)

RECURSIVE verify_blossom_edges_loop(_, _)
verify_blossom_edges_loop(c, st) ==
    IF st.stack = <<>> \/ st.failed THEN st
    ELSE
      LET blossom == Last(st.stack)[1]
          p0 == Last(st.stack)[2]
          depth == Len(st.stack)
          vs == vertices(c, blossom)
          st1 == IF p0 = -1
                 THEN [st EXCEPT
                         !.vertex_depth = [x \in DOMAIN @ |->
                                             IF x \in Range(vs) THEN depth ELSE @[x]],
                         !.path_sum_dual = Append(@, Last(@) + c.blossom[blossom].dual_var),
                         !.path_num_matched = Append(@, 0)]
                 ELSE st
          p == IF p0 = -1 THEN 0 ELSE p0
          subs == c.blossom[blossom].subblossoms
      IN IF p < Len(subs)
         THEN LET st2 == [st1 EXCEPT !.stack[depth] = <<blossom, p + 1>>]
                  sub == subs[p + 1]
              IN IF IsNonTrivial(c, sub)
                 THEN verify_blossom_edges_loop(c, [st2 EXCEPT !.stack = Append(@, <<sub, -1>>)])
                 ELSE verify_blossom_edges_loop(c,
                          verify_scan_vertex(c, st2, c.blossom[sub].base_vertex, depth))
         ELSE LET blossom_num_matched == st1.path_num_matched[depth + 1]
              IN IF Len(vs) # 2 * blossom_num_matched + 1
                 THEN [st1 EXCEPT !.failed = TRUE]
                 ELSE verify_blossom_edges_loop(c,
                        [st1 EXCEPT
                           !.path_num_matched =
                               ButLast([@ EXCEPT ![depth] = @ + blossom_num_matched]),
                           !.vertex_depth = [x \in DOMAIN @ |->
                                               IF x \in Range(vs) THEN depth - 1 ELSE @[x]],
                           !.path_sum_dual = ButLast(@),
                           !.stack = ButLast(@)])

\* Returns [edge_slack_2x, failed].
verify_blossom_edges(c, blossom, edge_slack_2x) ==
    LET st == verify_blossom_edges_loop(c,
                 [stack |-> << <<blossom, -1>> >>,
                  vertex_depth |-> [x \in 0..(c.graph.num_vertex - 1) |-> 0],
                  path_sum_dual |-> <<0>>,
                  path_num_matched |-> <<0>>,
                  edge_slack_2x |-> edge_slack_2x,
                  failed |-> FALSE])
    IN [edge_slack_2x |-> st.edge_slack_2x, failed |-> st.failed]

\* "order" is the order in which the set nontrivial_blossom is iterated.
\* Returns "ok", or the check that raised MatchingError.
RECURSIVE verify_optimum_blossoms_loop(_, _, _, _)
verify_optimum_blossoms_loop(c, s, order, i) ==
    IF i > Len(order) THEN s
    ELSE verify_optimum_blossoms_loop(c,
             IF s.failed \/ c.blossom[order[i]].parent # NoneId THEN s
             ELSE verify_blossom_edges(c, order[i], s.edge_slack_2x),
             order, i + 1)

\* verify_optimum with r = [edge_slack_2x, failed], the outcome of the loop
\* "for blossom in ctx.nontrivial_blossom: if blossom.parent is None: ...".
verify_optimum_checks(c, order, r) ==
    LET n == c.graph.num_vertex
        V == 0..(n - 1)
        E == 1..Len(c.graph.edges)
        num_matched_vertex == Cardinality({x \in V : c.vertex_mate[x] # -1})
        num_matched_edge ==
            Cardinality({e \in E : c.vertex_mate[c.graph.edges[e][1]] = c.graph.edges[e][2]})
    IN IF \E x \in V : c.vertex_mate[x] # -1 /\ c.vertex_mate[c.vertex_mate[x]] # x
       THEN "asymmetric match"
       ELSE IF num_matched_vertex # 2 * num_matched_edge
       THEN "matched vertices inconsistent with matched edges"
       ELSE IF \E x \in V : c.vertex_dual_2x[x] < 0
       THEN "negative vertex dual"
       ELSE IF \E i \in 1..Len(order) : c.blossom[order[i]].dual_var < 0
       THEN "negative blossom dual"
       ELSE IF \E x \in V : c.vertex_mate[x] = -1 /\ c.vertex_dual_2x[x] # 0
       THEN "unmatched vertex has non-zero dual"
       ELSE IF r.failed
       THEN "blossom non-full"
       ELSE IF \E e \in E : r.edge_slack_2x[e] < 0
       THEN "negative edge slack"
       ELSE IF \E e \in E : /\ c.vertex_mate[c.graph.edges[e][1]] = c.graph.edges[e][2]
                            /\ r.edge_slack_2x[e] # 0
       THEN "matched edge has slack"
       ELSE "ok"

\* "order" is the order in which the set nontrivial_blossom is iterated.
\* Returns "ok", or the check that raised MatchingError.
verify_optimum(c, order) ==
    verify_optimum_checks(c, order,
        verify_optimum_blossoms_loop(c,
            [edge_slack_2x |-> [e \in 1..Len(c.graph.edges) |-> edge_pseudo_slack_2x(c, e)],
             failed |-> FALSE],
            order, 1))

(***************************************************************************)
(* Entry points and input validation.                                      *)
(* The argument "edges" is arg = [list, items]: list says whether it is a  *)
(* Python list, items are its elements [kind, x, y, w] with kind           *)
(*   "int"               a 3-tuple of int endpoints and an int weight w,   *)
(*   "not_tuple3"        not a tuple, or not of length 3,                  *)
(*   "endpoint_not_int"  an endpoint is not an int,                        *)
(*   "weight_not_number" the weight is neither int nor float,              *)
(*   "float_nonfinite"   a float weight that is inf or nan,                *)
(*   "float_too_large"   a float weight above sys.float_info.max / 4,      *)
(*   "float"             a 3-tuple of int endpoints and a finite float     *)
(*                       weight in range, of the integral value w.         *)
(* The weights of one list are all int or all float.  Float weights are    *)
(* modelled for the adjust function; maximum_weight_matching is modelled   *)
(* on integer weights, where GraphInfo.integer_weights is True.            *)
(***************************************************************************)
check_elem_types(e) ==
    IF e.kind = "not_tuple3" THEN "TypeError"
    ELSE IF e.kind = "endpoint_not_int" THEN "TypeError"
    ELSE IF e.x < 0 \/ e.y < 0 THEN "ValueError"
    ELSE IF e.kind = "weight_not_number" THEN "TypeError"
    ELSE IF e.kind = "float_nonfinite" THEN "ValueError"
    ELSE IF e.kind = "float_too_large" THEN "ValueError"
    ELSE "ok"

\* _check_input_types: the first element that fails decides.
RECURSIVE check_input_types_loop(_, _)
check_input_types_loop(items, i) ==
    IF i > Len(items) THEN "ok"
    ELSE IF check_elem_types(items[i]) # "ok" THEN check_elem_types(items[i])
    ELSE check_input_types_loop(items, i + 1)

check_input_types(arg) ==
    IF ~arg.list THEN "TypeError" ELSE check_input_types_loop(arg.items, 1)

PairLess(a, b) == a[1] < b[1] \/ (a[1] = b[1] /\ a[2] < b[2])

\* list.sort() on a list of pairs.
RECURSIVE SortPairs(_)
SortPairs(s) ==
    IF Len(s) <= 1 THEN s
    ELSE LET rest == SortPairs(Tail(s))
             h == Head(s)
             before == SelectSeq(rest, LAMBDA p : PairLess(p, h))
             after == SelectSeq(rest, LAMBDA p : ~PairLess(p, h))
         IN before \o <<h>> \o after

\* Variant: two edges count as duplicates only when given in the same orientation.
check_input_graph_oriented(arg) ==
    LET items == arg.items
        edge_endpoints == SortPairs([i \in 1..Len(items) |-> <<items[i].x, items[i].y>>])
    IN IF \E i \in 1..Len(items) : items[i].x = items[i].y THEN "ValueError"
       ELSE IF \E i \in 1..(Len(items) - 1) : edge_endpoints[i] = edge_endpoints[i + 1]
       THEN "ValueError"
       ELSE "ok"

\* _check_input_graph
check_input_graph(arg) ==
    LET items == arg.items
        edge_endpoints ==
            SortPairs([i \in 1..Len(items) |->
                         IF items[i].x < items[i].y THEN <<items[i].x, items[i].y>>
                         ELSE <<items[i].y, items[i].x>>])
    IN IF \E i \in 1..Len(items) : items[i].x = items[i].y THEN "ValueError"
       ELSE IF \E i \in 1..(Len(items) - 1) : edge_endpoints[i] = edge_endpoints[i + 1]
       THEN "ValueError"
       ELSE "ok"

\* Variant: an edge of negative weight is kept, with the sign of its weight
\* dropped.
remove_negative_weight_edges_keep_all(items) ==
    [i \in 1..Len(items) |-> [items[i] EXCEPT !.w = IF @ < 0 THEN 0 - @ ELSE @]]

\* _remove_negative_weight_edges
remove_negative_weight_edges(items) == SelectSeq(items, LAMBDA e : e.w >= 0)

Triples(items) == [i \in 1..Len(items) |-> <<items[i].x, items[i].y, items[i].w>>]

\* The part of maximum_weight_matching before the stage loop.
\* Returns [status, ctx]: status is "TypeError", "ValueError", "empty" or "run".
NoCtx == [ok |-> TRUE]

mwm_prepare(arg) ==
    LET t == check_input_types(arg)
        g == check_input_graph(arg)
        edges == Triples(remove_negative_weight_edges(arg.items))
    IN IF t # "ok" THEN [status |-> t, ctx |-> NoCtx]
       ELSE IF g # "ok" THEN [status |-> g, ctx |-> NoCtx]
       ELSE IF edges = <<>> THEN [status |-> "empty", ctx |-> NoCtx]
       ELSE [status |-> "run", ctx |-> start(MatchingContext(GraphInfo(edges)))]

\* Variant: the weights are only made positive, whatever their range.
adjust_weights_positive_only(arg) ==
    LET t == check_input_types(arg)
        items == arg.items
        min_weight == MinOf({items[i].w : i \in 1..Len(items)})
    IN IF t # "ok" THEN [status |-> t, value |-> arg]
       ELSE IF items = <<>> \/ min_weight > 0 THEN [status |-> "ok", value |-> arg]
       ELSE [status |-> "ok",
             value |-> [arg EXCEPT !.items = [i \in 1..Len(items) |->
                                               [items[i] EXCEPT !.w = @ + 1 - min_weight]]]]

\* Number of significant bits of a float.  Python floats have 53; the model
\* keeps the rounding rule and shortens the significand.
FloatPrecision == 3

\* The spacing of the floats around the magnitude v >= 0.
RECURSIVE FloatUlp(_, _)
FloatUlp(v, u) == IF v < (2 ^ FloatPrecision) * u THEN u ELSE FloatUlp(v, 2 * u)

\* The float nearest to the exact value v, ties to the even significand.
RoundMagnitude(v) ==
    LET u == FloatUlp(v, 1)
        q == v \div u
        r == v % u
    IN IF 2 * r < u \/ (2 * r = u /\ q % 2 = 0) THEN q * u ELSE (q + 1) * u

RoundFloat(v) == IF v < 0 THEN 0 - RoundMagnitude(0 - v) ELSE RoundMagnitude(v)

\* The result of a Python arithmetic operation whose exact value is v:
\* exact on ints, rounded on floats.
Arith(is_float, v) == IF is_float THEN RoundFloat(v) ELSE v

\* Variant: the shift is num_vertex * weight_range, without "- min_weight".
adjust_weights_range_only(arg) ==
    LET t == check_input_types(arg)
        items == arg.items
        I == 1..Len(items)
        num_vertex == 1 + MaxOf({IF items[i].x > items[i].y THEN items[i].x ELSE items[i].y
                                 : i \in I})
        min_weight == MinOf({items[i].w : i \in I})
        max_weight == MaxOf({items[i].w : i \in I})
        weight_range == max_weight - min_weight
        delta == IF weight_range > 0 THEN num_vertex * weight_range ELSE 1 - min_weight
    IN IF t # "ok" THEN [status |-> t, value |-> arg]
       ELSE IF items = <<>> THEN [status |-> "ok", value |-> arg]
       ELSE IF min_weight > 0 /\ min_weight >= num_vertex * weight_range
       THEN [status |-> "ok", value |-> arg]
       ELSE [status |-> "ok",
             value |-> [arg EXCEPT !.items = [i \in I |-> [items[i] EXCEPT !.w = @ + delta]]]]

\* adjust_weights_for_maximum_cardinality_matching.
\* Returns [status, value]: status is "ok", "TypeError", "ValueError" or "AssertionError".
adjust_weights_for_maximum_cardinality_matching(arg) ==
    LET t == check_input_types(arg)
        items == arg.items
        I == 1..Len(items)
        is_float == \E i \in I : items[i].kind = "float"
        num_vertex == 1 + MaxOf({IF items[i].x > items[i].y THEN items[i].x ELSE items[i].y
                                 : i \in I})
        min_weight == MinOf({items[i].w : i \in I})
        max_weight == MaxOf({items[i].w : i \in I})
        weight_range == Arith(is_float, max_weight - min_weight)
        scaled_range == Arith(is_float, num_vertex * weight_range)
        delta == IF weight_range > 0 THEN Arith(is_float, scaled_range - min_weight)
                 ELSE Arith(is_float, 1 - min_weight)
    IN IF t # "ok" THEN [status |-> t, value |-> arg]
       ELSE IF items = <<>> THEN [status |-> "ok", value |-> arg]
       ELSE IF min_weight > 0 /\ min_weight >= scaled_range
       THEN [status |-> "ok", value |-> arg]
       ELSE IF ~(delta >= 0) THEN [status |-> "AssertionError", value |-> arg]
       ELSE [status |-> "ok",
             value |-> [arg EXCEPT !.items =
                          [i \in I |-> [items[i] EXCEPT !.w = Arith(is_float, @ + delta)]]]]

(***************************************************************************)
(* State machine: one call of maximum_weight_matching, optionally on the   *)
(* result of adjust_weights_for_maximum_cardinality_matching.              *)
(*   orig      the edge list handed to the first function called           *)
(*   input     the edge list handed to maximum_weight_matching             *)
(*   adjusted  whether input went through the adjust function             *)
(*   pc        position in maximum_weight_matching:                        *)
(*             "idle" -> "validated" -> "stage" <-> "delta" -> "cleanup"   *)
(*             -> "verify" -> "returned", or "raised"; "adjust_raised"     *)
(*             when the adjust function raised; "readjusted" when the      *)
(*             adjust function returned from a call on its own result      *)
(*   ctx       the MatchingContext (NoCtx before it is built)              *)
(*   delta     the tuple returned by calc_dual_delta_step in this substage *)
(*   stage     number of run_stage calls that returned True                *)
(*   result    the returned list of pairs; in "readjusted" the list of     *)
(*             edges returned by the second call of the adjust function    *)
(*   error     the exception raised ("none" if none)                       *)
(*   first     <<>>, or <<the list of pairs>> that an earlier call of      *)
(*             maximum_weight_matching on the same list has returned       *)
(***************************************************************************)
VARIABLES orig, input, adjusted, pc, ctx, delta, stage, result, error, first, pq, cq

vars == <<orig, input, adjusted, pc, ctx, delta, stage, result, error, first, pq, cq>>

\* The PriorityQueue and the ConcatenableQueues driven on their own (see the
\* queue specifications below); a call of maximum_weight_matching keeps its
\* queues in ctx and leaves these alone.
NoPQ == [heap |-> PQ_new, elems |-> <<>>, ok |-> TRUE]

NoCQ == [S |-> CQ_empty_store, raised |-> "none", content |-> <<>>, saved |-> <<>>,
         prio |-> <<>>, merges |-> 0,
         last |-> [op |-> "none", q |-> NoneId, subs |-> <<>>, pre |-> CQ_empty_store]]

NoDelta == [delta_type |-> 0, delta_2x |-> 0, delta_edge |-> NoneId, delta_blossom |-> NoneId]

\* An assertion that failed inside a handler surfaces as AssertionError.
Continue(c, next_pc) ==
    /\ ctx' = c
    /\ pc' = IF c.ok THEN next_pc ELSE "raised"
    /\ error' = IF c.ok THEN "none" ELSE "AssertionError"

\* adjust_weights_for_maximum_cardinality_matching(orig), then the caller
\* hands its result to maximum_weight_matching.
Adjust ==
    /\ pc = "idle" /\ ~adjusted /\ first = <<>>
    /\ LET r == adjust_weights_for_maximum_cardinality_matching(orig)
       IN /\ adjusted' = TRUE
          /\ input' = r.value
          /\ pc' = IF r.status = "ok" THEN "idle" ELSE "adjust_raised"
          /\ error' = IF r.status = "ok" THEN "none" ELSE r.status
    /\ UNCHANGED <<pq, cq, first, orig, ctx, delta, stage, result>>

\* adjust_weights_for_maximum_cardinality_matching(input) on the list the
\* adjust function has returned.
Readjust ==
    /\ pc = "idle" /\ adjusted
    /\ LET r == adjust_weights_for_maximum_cardinality_matching(input)
       IN /\ result' = r.value
          /\ pc' = IF r.status = "ok" THEN "readjusted" ELSE "adjust_raised"
          /\ error' = IF r.status = "ok" THEN "none" ELSE r.status
    /\ UNCHANGED <<pq, cq, first, orig, input, adjusted, ctx, delta, stage>>

\* maximum_weight_matching: _check_input_types and _check_input_graph.
Validate ==
    /\ pc = "idle"
    /\ LET t == check_input_types(input)
           g == check_input_graph(input)
       IN /\ pc' = IF t = "ok" /\ g = "ok" THEN "validated" ELSE "raised"
          /\ error' = IF t # "ok" THEN t ELSE IF g # "ok" THEN g ELSE "none"
    /\ UNCHANGED <<pq, cq, first, orig, input, adjusted, ctx, delta, stage, result>>

\* maximum_weight_matching: drop negative edges, special case for empty
\* graphs, GraphInfo, MatchingContext, start().
Build ==
    /\ pc = "validated"
    /\ LET r == mwm_prepare(input)
       IN IF r.status = "empty"
          THEN /\ pc' = "returned" /\ result' = <<>>
               /\ UNCHANGED <<ctx, error>>
          ELSE /\ Continue(r.ctx, "stage")
               /\ UNCHANGED result
    /\ UNCHANGED <<pq, cq, first, orig, input, adjusted, delta, stage>>

\* run_stage, first half of a substage.
ScanAndCalc ==
    /\ pc = "stage"
    /\ LET d == substage_delta(ctx)
       IN /\ Continue(d.c, "delta")
          /\ delta' = [delta_type |-> d.delta_type, delta_2x |-> d.delta_2x,
                       delta_edge |-> d.delta_edge, delta_blossom |-> d.delta_blossom]
    /\ UNCHANGED <<pq, cq, first, orig, input, adjusted, stage, result>>

\* run_stage, "else" branch: returns False; the stage loop ends.
ApplyDelta1 ==
    /\ pc = "delta" /\ delta.delta_type \notin {2, 3, 4}
    /\ Continue(Require(ctx, delta.delta_type = 1), "cleanup")
    /\ UNCHANGED <<pq, cq, first, orig, input, adjusted, delta, stage, result>>

ApplyDelta2 ==
    /\ pc = "delta" /\ delta.delta_type = 2
    /\ Continue(Collect(substage_delta2(ctx, delta.delta_edge)), "stage")
    /\ UNCHANGED <<pq, cq, first, orig, input, adjusted, delta, stage, result>>

\* The set bx.tree_blossoms of the top-level blossom bx of vertex x.
TreeOf(c, x) == c.tree_sets[c.blossom[top_level_blossom(c, x)].tree_blossoms]

\* "bx.tree_blossoms is by.tree_blossoms" for the endpoints of edge e.
SameTree(c, e) ==
    c.blossom[top_level_blossom(c, c.graph.edges[e][1])].tree_blossoms
        = c.blossom[top_level_blossom(c, c.graph.edges[e][2])].tree_blossoms

\* "augmented = self.add_s_to_s_edge(x, y); if augmented: break"
AfterDelta3(r) ==
    /\ Continue(Collect(r.c), "stage")
    /\ stage' = IF r.c.ok /\ r.augmented THEN stage + 1 ELSE stage

\* delta_type 3 on an edge inside one alternating tree: add_s_to_s_edge
\* iterates no set.
ApplyDelta3Blossom ==
    /\ pc = "delta" /\ delta.delta_type = 3 /\ SameTree(ctx, delta.delta_edge)
    /\ AfterDelta3(substage_delta3(ctx, delta.delta_edge, <<>>, <<>>))
    /\ UNCHANGED <<pq, cq, first, orig, input, adjusted, delta, result>>

\* delta_type 3 on an edge between two alternating trees: add_s_to_s_edge
\* removes both trees, iterating each tree_blossoms set in some order.
ApplyDelta3Augment ==
    /\ pc = "delta" /\ delta.delta_type = 3 /\ ~SameTree(ctx, delta.delta_edge)
    /\ \E ox \in Orderings(TreeOf(ctx, ctx.graph.edges[delta.delta_edge][1])),
          oy \in Orderings(TreeOf(ctx, ctx.graph.edges[delta.delta_edge][2])) :
          AfterDelta3(substage_delta3(ctx, delta.delta_edge, ox, oy))
    /\ UNCHANGED <<pq, cq, first, orig, input, adjusted, delta, result>>

ApplyDelta4 ==
    /\ pc = "delta" /\ delta.delta_type = 4
    /\ Continue(Collect(substage_delta4(ctx, delta.delta_blossom)), "stage")
    /\ UNCHANGED <<pq, cq, first, orig, input, adjusted, delta, stage, result>>

\* cleanup() and the extraction of the pairs.
Cleanup ==
    /\ pc = "cleanup"
    /\ \E order \in Orderings(ctx.nontrivial_blossom) :
          LET c == cleanup(ctx, order)
          IN /\ Continue(c, "verify")
             /\ result' = IF c.ok THEN ExtractPairs(c) ELSE result
    /\ UNCHANGED <<pq, cq, first, orig, input, adjusted, delta, stage>>

\* "if graph.integer_weights: verify_optimum(ctx)", then return pairs.
Verify ==
    /\ pc = "verify"
    /\ \E order \in Orderings(ctx.nontrivial_blossom) :
          LET v == verify_optimum(ctx, order)
          IN /\ pc' = IF v = "ok" THEN "returned" ELSE "raised"
             /\ error' = IF v = "ok" THEN "none" ELSE "MatchingError"
    /\ UNCHANGED <<pq, cq, first, orig, input, adjusted, ctx, delta, stage, result>>

(***************************************************************************)
(* Inputs.                                                                 *)
(***************************************************************************)
IntEdge(x, y, w) == [kind |-> "int", x |-> x, y |-> y, w |-> w]

EdgeList(triples) ==
    [list |-> TRUE,
     items |-> [i \in 1..Len(triples) |-> IntEdge(triples[i][1], triples[i][2], triples[i][3])]]

\* Bounds of the exhaustive input families.
MaxVertex == 2

MaxWeight == 1

MaxListLen == 2

\* As many edges as vertices.
MaxEdges == MaxVertex + 1

\* Negative edges are dropped whatever their weight: one negative weight.
Weights == (0 - 1)..MaxWeight

\* Every simple graph on the vertices 0..MaxVertex with at most MaxEdges
\* edges (x, y, w), x < y, listed in lexicographic order, w in Weights.
GraphInputs ==
    LET N == MaxVertex + 1
        Codes == {k \in 0..(N * N - 1) : k \div N < k % N}
    IN UNION { { LET s == SetToSeqAsc(S)
                 IN [list |-> TRUE,
                     items |-> [i \in 1..Len(s) |->
                                  IntEdge(s[i] \div N, s[i] % N, wf[s[i]])]]
                 : wf \in [S -> Weights] }
               : S \in {T \in SUBSET Codes : Cardinality(T) <= MaxEdges} }

\* Short lists over elements that include self-edges, both orientations of
\* an edge, negative endpoints, negative weights and ill-typed elements.
SmallElems ==
    {IntEdge(x, y, w) : x \in -1..1, y \in -1..1, w \in {0 - 1, 1}}
    \cup {[kind |-> k, x |-> x, y |-> 1, w |-> 1] :
            k \in {"not_tuple3", "endpoint_not_int", "weight_not_number",
                   "float_nonfinite", "float_too_large"},
            x \in {-1, 0}}

SmallLists ==
    UNION { {[list |-> TRUE, items |-> items] : items \in [1..k -> SmallElems]}
            : k \in 0..MaxListLen }

\* Graphs that exercise blossom creation, nested blossoms, augmenting through
\* blossoms, expansion of T-blossoms and of unlabeled blossoms, a graph on
\* which the order of iteration of tree_blossoms matters, paths whose
\* maximum-weight matching is not a largest matching, a graph on which the
\* delta3 and delta4 candidates are equal, a graph whose last stage ends
\* with a T-blossom and an edge between two S-blossoms in place, a graph
\* that is augmented while a third alternating tree holds a T-blossom, a
\* graph on which the delta2, delta3 and delta4 queues are in use at once,
\* and a graph whose last stage ends with a non-trivial S-blossom and a
\* non-trivial T-blossom in place.
SpecialInputs ==
    { EdgeList(<< <<0, 1, 1>>, <<1, 2, 1>>, <<2, 0, 1>> >>),
      EdgeList(<< <<0, 1, 1>>, <<1, 2, 3>>, <<2, 3, 1>> >>),
      EdgeList(<< <<0, 1, -1>>, <<1, 2, 1>>, <<2, 3, -1>> >>),
      EdgeList(<< <<0, 1, 2>>, <<1, 2, 5>>, <<2, 3, 2>>, <<3, 4, 5>>, <<4, 5, 2>> >>),
      EdgeList(<< <<0, 1, 1>>, <<1, 2, 1>>, <<2, 3, 1>>, <<3, 4, 1>>, <<4, 0, 1>> >>),
      EdgeList(<< <<0, 1, 2>>, <<0, 2, 2>>, <<1, 3, 1>>, <<2, 3, 1>>, <<2, 4, 1>>, <<4, 5, 1>> >>),
      EdgeList(<< <<0, 1, 1>>, <<0, 2, 1>>, <<0, 3, 1>>, <<1, 3, 1>> >>),
      EdgeList(<< <<0, 1, 1>>, <<0, 2, 1>>, <<1, 2, 1>>, <<1, 4, 1>>, <<2, 5, 1>>, <<3, 5, 1>>, <<4, 5, 1>> >>),
      EdgeList(<< <<0, 2, 1>>, <<0, 3, 1>>, <<1, 3, 1>>, <<1, 4, 1>>, <<2, 4, 1>> >>),
      EdgeList(<< <<0, 3, 2>>, <<0, 4, 2>>, <<1, 3, 1>>, <<2, 3, 1>>, <<3, 4, 2>> >>),
      EdgeList(<< <<0, 1, 1>>, <<0, 2, 1>>, <<0, 3, 1>>, <<1, 3, 1>>, <<1, 4, 1>> >>),
      EdgeList(<< <<0, 2, 1>>, <<0, 3, 1>>, <<1, 2, 1>>, <<1, 4, 1>>, <<2, 3, 1>>, <<2, 4, 1>> >>),
      EdgeList(<< <<0, 1, 23>>, <<0, 4, 22>>, <<0, 5, 15>>, <<1, 2, 25>>, <<2, 3, 22>>,
                  <<3, 4, 25>>, <<3, 7, 14>>, <<4, 6, 13>> >>),
      EdgeList(<< <<0, 1, 9>>, <<0, 2, 9>>, <<1, 2, 10>>, <<1, 3, 8>>, <<2, 4, 8>>,
                  <<3, 4, 10>>, <<4, 5, 6>> >>),
      EdgeList(<< <<0, 1, 19>>, <<0, 2, 20>>, <<0, 7, 8>>, <<1, 2, 25>>, <<1, 3, 18>>,
                  <<2, 4, 18>>, <<3, 4, 13>>, <<3, 6, 7>>, <<4, 5, 7>> >>),
      EdgeList(<< <<4, 3, 5>>, <<2, 3, -4>>, <<1, 0, 7>>, <<1, 2, 6>>, <<3, 0, -1>>, <<4, 2, 0>> >>),
      EdgeList(<< <<0, 3, 3>>, <<0, 2, 3>>, <<1, 4, 1>>, <<2, 3, 3>>, <<0, 4, 2>>, <<0, 1, 2>> >>),
      EdgeList(<< <<2, 3, 5>>, <<3, 4, 4>>, <<1, 4, 3>>, <<1, 3, 5>>, <<0, 4, 1>>, <<1, 2, 5>>,
                  <<0, 1, 2>> >>),
      EdgeList(<< <<1, 2, 2>>, <<0, 3, 1>>, <<0, 2, 1>>, <<2, 4, 2>> >>),
      EdgeList(<< <<2, 3, 2>>, <<2, 6, 1>>, <<0, 1, 2>>, <<3, 4, 2>>, <<1, 5, 2>>, <<1, 6, 1>>,
                  <<0, 5, 2>>, <<0, 2, 1>> >>),
      EdgeList(<< <<2, 6, 2>>, <<0, 3, 1>>, <<1, 5, 1>>, <<0, 2, 1>>, <<1, 3, 2>>, <<3, 4, 1>>,
                  <<3, 5, 2>>, <<0, 6, 2>> >>) }

NotAList == [list |-> FALSE, items |-> <<>>]

Inputs == GraphInputs \cup SmallLists \cup SpecialInputs \cup {NotAList}

Init ==
    /\ orig \in Inputs
    /\ input = orig
    /\ adjusted = FALSE
    /\ pc = "idle"
    /\ ctx = NoCtx
    /\ delta = NoDelta
    /\ stage = 0
    /\ result = <<>>
    /\ error = "none"
    /\ first = <<>>
    /\ pq = NoPQ
    /\ cq = NoCQ

Next ==
    \/ Adjust
    \/ Validate
    \/ Build
    \/ ScanAndCalc
    \/ ApplyDelta1
    \/ ApplyDelta2
    \/ ApplyDelta3Blossom
    \/ ApplyDelta3Augment
    \/ ApplyDelta4
    \/ Cleanup
    \/ Verify

Spec == Init /\ [][Next]_vars

\* A second call of maximum_weight_matching on the list of a call that has
\* returned.
CallAgain ==
    /\ pc = "returned" /\ first = <<>>
    /\ first' = <<result>>
    /\ pc' = "idle"
    /\ ctx' = NoCtx
    /\ delta' = NoDelta
    /\ stage' = 0
    /\ result' = <<>>
    /\ UNCHANGED <<pq, cq, orig, input, adjusted, error>>

TwoCallsNext ==
    \/ Adjust
    \/ Validate
    \/ Build
    \/ ScanAndCalc
    \/ ApplyDelta1
    \/ ApplyDelta2
    \/ ApplyDelta3Blossom
    \/ ApplyDelta3Augment
    \/ ApplyDelta4
    \/ Cleanup
    \/ Verify
    \/ CallAgain

\* Two calls of maximum_weight_matching on one list.
TwoCallsSpec == Init /\ [][TwoCallsNext]_vars

\* Edges with float weights: every float of magnitude at most
\* 2^FloatPrecision that holds an integral value.
FloatElems ==
    {[kind |-> "float", x |-> x, y |-> x + 1, w |-> w] :
        x \in 0..1, w \in (0 - 2 ^ FloatPrecision)..(2 ^ FloatPrecision)}

\* The adjust function alone, called once and then on its own result: on
\* the lists of Inputs and on the lists of 1..MaxListLen elements of FloatElems.
AdjustInit ==
    /\ \/ orig \in Inputs
       \/ \E k \in 1..MaxListLen : \E items \in [1..k -> FloatElems] :
             orig = [list |-> TRUE, items |-> items]
    /\ input = orig
    /\ adjusted = FALSE
    /\ pc = "idle"
    /\ ctx = NoCtx
    /\ delta = NoDelta
    /\ stage = 0
    /\ result = <<>>
    /\ error = "none"
    /\ first = <<>>
    /\ pq = NoPQ
    /\ cq = NoCQ

AdjustNext ==
    \/ Adjust
    \/ Readjust

AdjustSpec == AdjustInit /\ [][AdjustNext]_vars

\* A step of Next is possible exactly while the call has neither returned
\* nor raised.
Running == pc \notin {"returned", "raised", "adjust_raised"}

\* A running call goes on running: weak fairness of Next.  WF_vars(Next) is
\* []<>(~ENABLED <<Next>>_vars) \/ []<><<Next>>_vars, written here with
\* Running for ENABLED <<Next>>_vars.
FairSpec == Spec /\ ([]<>(~Running) \/ []<><<Next>>_vars)

(***************************************************************************)
(* One PriorityQueue driven by its public operations.  pq.heap is the      *)
(* heap list; a handle (the Node returned by insert) is named by its data; *)
(* pq.elems records, for every handle inserted and not deleted, the        *)
(* priority the caller gave it last; pq.ok is cleared by a failed assert.  *)
(***************************************************************************)
\* Bounds: length of the heap and largest priority.
MaxHeapLen == 4

MaxPrio == 2

PQPrios == 0..MaxPrio

PQHandles == 1..MaxHeapLen

\* No call of maximum_weight_matching is in progress.
NoCall ==
    /\ orig = NotAList
    /\ input = orig
    /\ adjusted = FALSE
    /\ pc = "idle"
    /\ ctx = NoCtx
    /\ delta = NoDelta
    /\ stage = 0
    /\ result = <<>>
    /\ error = "none"
    /\ first = <<>>

CallVars == <<orig, input, adjusted, pc, ctx, delta, stage, result, error, first>>

\* "assert self.heap[elem.index] is elem" for the handle named data.
PQ_is_elem(heap, data) ==
    LET elem == PQ_node(heap, data)
    IN elem.index < Len(heap) /\ heap[elem.index + 1].data = data

PQInit ==
    /\ NoCall
    /\ pq = NoPQ
    /\ cq = NoCQ

\* insert(prio, data); the new handle is the smallest name not in use.
PQInsert ==
    /\ pq.ok /\ Len(pq.heap) < MaxHeapLen
    /\ \E prio \in PQPrios :
          LET data == CHOOSE d \in PQHandles \ DOMAIN pq.elems :
                          \A e \in PQHandles \ DOMAIN pq.elems : d <= e
          IN pq' = [pq EXCEPT !.heap = PQ_insert(@, prio, data),
                              !.elems = @ @@ (data :> prio)]
    /\ UNCHANGED <<cq, CallVars>>

\* delete(elem) on a handle of an element in the queue.
PQDelete ==
    /\ pq.ok
    /\ \E data \in DOMAIN pq.elems :
          pq' = IF PQ_has(pq.heap, data) /\ PQ_is_elem(pq.heap, data)
                THEN [pq EXCEPT !.heap = PQ_delete(@, data),
                                !.elems = [d \in (DOMAIN @) \ {data} |-> @[d]]]
                ELSE [pq EXCEPT !.ok = FALSE]
    /\ UNCHANGED <<cq, CallVars>>

\* decrease_prio(elem, prio) with prio <= elem.prio.
PQDecreasePrio ==
    /\ pq.ok
    /\ \E data \in DOMAIN pq.elems : \E prio \in PQPrios :
          /\ prio <= pq.elems[data]
          /\ pq' = IF /\ PQ_has(pq.heap, data) /\ PQ_is_elem(pq.heap, data)
                      /\ prio <= PQ_node(pq.heap, data).prio
                   THEN [pq EXCEPT !.heap = PQ_decrease_prio(@, data, prio),
                                   !.elems[data] = prio]
                   ELSE [pq EXCEPT !.ok = FALSE]
    /\ UNCHANGED <<cq, CallVars>>

\* increase_prio(elem, prio) with prio >= elem.prio.
PQIncreasePrio ==
    /\ pq.ok
    /\ \E data \in DOMAIN pq.elems : \E prio \in PQPrios :
          /\ prio >= pq.elems[data]
          /\ pq' = IF /\ PQ_has(pq.heap, data) /\ PQ_is_elem(pq.heap, data)
                      /\ prio >= PQ_node(pq.heap, data).prio
                   THEN [pq EXCEPT !.heap = PQ_increase_prio(@, data, prio),
                                   !.elems[data] = prio]
                   ELSE [pq EXCEPT !.ok = FALSE]
    /\ UNCHANGED <<cq, CallVars>>

\* clear()
PQClear ==
    /\ pq.ok /\ pq.heap # <<>>
    /\ pq' = [pq EXCEPT !.heap = PQ_new, !.elems = <<>>]
    /\ UNCHANGED <<cq, CallVars>>

PQNext ==
    \/ PQInsert
    \/ PQDelete
    \/ PQDecreasePrio
    \/ PQIncreasePrio
    \/ PQClear

PQSpec == PQInit /\ [][PQNext]_vars

(***************************************************************************)
(* ConcatenableQueues driven by their public operations.  cq.S is the      *)
(* store of queue and node objects.  The rest of cq is bookkeeping of the  *)
(* caller: cq.content[q] is the sequence of leaves queue q should hold,    *)
(* cq.saved[q] the contents the sub-queues of a merged queue q had before  *)
(* the merge, cq.prio[leaf] the priority given last, cq.merges the number  *)
(* of merge calls, cq.raised the exception that ended the sequence, if     *)
(* any, and cq.last the call that raised it with the store before it.  As  *)
(* in the tests and in the matching algorithm, a queue that has been       *)
(* merged into another one is left alone until that one is split.  Empty   *)
(* queues are interchangeable: a call that needs one takes the one of      *)
(* least name.  Node objects that nothing refers to any more are dropped   *)
(* from the store after every call.                                        *)
(***************************************************************************)
\* Bounds: number of elements, number of merge calls, largest priority.
MaxElems == 4

MaxMerges == 2

MaxCQPrio == 1

CQPrios == 0..MaxCQPrio

CQNames == 1..(MaxElems + MaxMerges)

RECURSIVE CQ_create(_, _)
CQ_create(S, n) == IF n = 0 THEN S ELSE CQ_new_queue(CQ_create(S, n - 1), n)

\* The queues held by a merged queue.
CQHeld == UNION {Range(cq.S.queue[q].sub_queues) : q \in CQNames}

CQLive == CQNames \ CQHeld

\* Sequences of 1..Cardinality(Q) different queues of Q.
DistinctSeqs(Q) ==
    UNION {{f \in [1..k -> Q] : \A i, j \in 1..k : i # j => f[i] # f[j]}
           : k \in 1..Cardinality(Q)}

RECURSIVE Flatten(_)
Flatten(ss) == IF ss = <<>> THEN <<>> ELSE Head(ss) \o Flatten(Tail(ss))

CQInit ==
    /\ NoCall
    /\ pq = NoPQ
    /\ cq = [NoCQ EXCEPT !.S = CQ_create(CQ_empty_store, MaxElems + MaxMerges),
                          !.content = [q \in CQNames |-> <<>>],
                          !.saved = [q \in CQNames |-> <<>>]]

NoLast == [op |-> "none", q |-> NoneId, subs |-> <<>>, pre |-> CQ_empty_store]

\* The node objects of S still referenced: the leaves (the caller holds
\* them), their ancestors, and the nodes the queues point to.
RECURSIVE CQ_ancestors(_, _)
CQ_ancestors(S, node) ==
    IF node = NoneId THEN {} ELSE {node} \cup CQ_ancestors(S, S.node[node].parent)

CQ_referenced(S) ==
    (UNION {CQ_ancestors(S, n) : n \in {m \in DOMAIN S.node : S.node[m].height = 0}}
        \cup {S.queue[q].tree : q \in DOMAIN S.queue}
        \cup {S.queue[q].first_node : q \in DOMAIN S.queue}) \ {NoneId}

\* Node objects no longer referenced are dropped from the store, and the
\* next object gets the id after the largest one in use.
CQ_collect(S) ==
    LET live == CQ_referenced(S)
    IN [S EXCEPT !.node = [n \in live |-> @[n]],
                 !.next = IF live = {} THEN 0 ELSE 1 + MaxOf(live)]

\* The state after a call that returned r = [S, raised]; a call that raised
\* is remembered with the store before it.
CQDone(op, q, subs, r) ==
    [cq EXCEPT !.S = CQ_collect(r.S), !.raised = r.raised,
               !.last = IF r.raised = "none" THEN NoLast
                        ELSE [op |-> op, q |-> q, subs |-> subs, pre |-> cq.S]]

\* The empty queues among Q, and the set of the one of least name.
CQEmpty(Q) == {p \in Q : cq.content[p] = <<>>}

CQLeast(Q) == {p \in Q : \A r \in Q : p <= r}

\* q.insert(elem, prio) on an empty queue.
CQInsert ==
    /\ cq.raised = "none"
    /\ Cardinality(DOMAIN cq.prio) < MaxElems
    /\ \E q \in CQLeast(CQEmpty(CQLive)) : \E prio \in CQPrios :
          /\ LET r == CQ_insert_call(cq.S, q, Cardinality(DOMAIN cq.prio), prio)
             IN cq' = IF r.raised # "none" THEN CQDone("insert", q, <<>>, r)
                      ELSE [CQDone("insert", q, <<>>, r) EXCEPT
                               !.content[q] = <<r.leaf>>,
                               !.prio = @ @@ (r.leaf :> prio)]
    /\ UNCHANGED <<pq, CallVars>>

\* leaf.set_prio(prio)
CQSetPrio ==
    /\ cq.raised = "none"
    /\ \E leaf \in DOMAIN cq.prio : \E prio \in CQPrios \ {cq.prio[leaf]} :
          cq' = [cq EXCEPT !.S = CQ_set_prio(@, leaf, prio),
                           !.prio[leaf] = prio]
    /\ UNCHANGED <<pq, CallVars>>

\* q.merge(subs) on an empty queue q and a non-empty list of other queues.
CQMerge ==
    /\ cq.raised = "none"
    /\ cq.merges < MaxMerges
    /\ \E q \in CQLeast(CQEmpty(CQLive)) :
          \E subs \in DistinctSeqs((CQLive \ CQEmpty(CQLive))
                                       \cup CQLeast(CQEmpty(CQLive \ {q}))) :
          /\ LET r == CQ_merge_call(cq.S, q, subs)
                 done == [CQDone("merge", q, subs, r) EXCEPT !.merges = @ + 1]
             IN cq' = IF r.raised # "none" THEN done
                      ELSE [done EXCEPT
                               !.saved[q] = [i \in 1..Len(subs) |-> cq.content[subs[i]]],
                               !.content = [p \in CQNames |->
                                              IF p = q
                                              THEN Flatten([i \in 1..Len(subs) |->
                                                               cq.content[subs[i]]])
                                              ELSE IF p \in Range(subs) THEN <<>>
                                              ELSE @[p]]]
    /\ UNCHANGED <<pq, CallVars>>

\* q.split() on a queue that was filled by merge.
CQSplit ==
    /\ cq.raised = "none"
    /\ \E q \in CQLive :
          /\ cq.saved[q] # <<>>
          /\ LET r == CQ_split_call(cq.S, q)
                 subs == cq.S.queue[q].sub_queues
             IN cq' = IF r.raised # "none" THEN CQDone("split", q, subs, r)
                      ELSE [CQDone("split", q, subs, r) EXCEPT
                               !.saved[q] = <<>>,
                               !.content = [p \in CQNames |->
                                              IF p = q THEN <<>>
                                              ELSE IF p \in Range(subs)
                                              THEN cq.saved[q][IndexOf(subs, p)]
                                              ELSE @[p]]]
    /\ UNCHANGED <<pq, CallVars>>

CQNext ==
    \/ CQInsert
    \/ CQSetPrio
    \/ CQMerge
    \/ CQSplit

CQSpec == CQInit /\ [][CQNext]_vars

(***************************************************************************)
(* Matchings of an edge list, by enumeration.                              *)
(***************************************************************************)
\* Sets of indices of pairwise vertex-disjoint edges of the list.
Matchings(items) ==
    {S \in SUBSET (1..Len(items)) :
        \A i, j \in S : i # j =>
            {items[i].x, items[i].y} \cap {items[j].x, items[j].y} = {}}

RECURSIVE SumWeights(_, _)
SumWeights(items, S) ==
    IF S = {} THEN 0
    ELSE LET e == CHOOSE e \in S : TRUE
         IN items[e].w + SumWeights(items, S \ {e})

\* The largest total weight of a matching.
BestWeight(items) == MaxOf({SumWeights(items, S) : S \in Matchings(items)})

\* The largest number of edges of a matching.
BestSize(items) == MaxOf({Cardinality(S) : S \in Matchings(items)})

\* The largest total weight among the matchings with the largest number of edges.
BestWeightOfBestSize(items) ==
    MaxOf({SumWeights(items, S) :
             S \in {T \in Matchings(items) : Cardinality(T) = BestSize(items)}})

\* The indices of the edges of the list that the pairs name.
EdgesOfPairs(items, pairs) ==
    {e \in 1..Len(items) :
        \E i \in 1..Len(pairs) : items[e].x = pairs[i][1] /\ items[e].y = pairs[i][2]}

\* The vertices that have a mate.
MatchedVertices(c) == {x \in DOMAIN c.vertex_mate : c.vertex_mate[x] # -1}

(***************************************************************************)
(* Claims.                                                                 *)
(***************************************************************************)
\* C1: every pair returned by maximum_weight_matching is an edge (x, y, w) of
\* the edge list it was called with, and no vertex occurs in two returned pairs
\* (nor twice in one).
C1_PairsAreDisjointInputEdges ==
    pc = "returned" =>
        /\ \A i \in 1..Len(result) :
              \E e \in 1..Len(input.items) :
                  input.items[e].x = result[i][1] /\ input.items[e].y = result[i][2]
        /\ \A i, j \in 1..Len(result) :
              i # j => {result[i][1], result[i][2]} \cap {result[j][1], result[j][2]} = {}
        /\ \A i \in 1..Len(result) : result[i][1] # result[i][2]

\* C1 witness: a call returned at least two pairs.
C1_Witness == pc = "returned" /\ Len(result) >= 2

\* C2: the weights of the returned pairs add up to the largest total weight
\* of any set of vertex-disjoint edges of the edge list (integer weights).
C2_ResultHasMaximumWeight ==
    pc = "returned" =>
        /\ Cardinality(EdgesOfPairs(input.items, result)) = Len(result)
        /\ SumWeights(input.items, EdgesOfPairs(input.items, result))
               = BestWeight(input.items)

\* C2 witness: a returned matching that leaves out an edge of positive weight
\* and is not just a largest set of disjoint edges.
C2_Witness ==
    /\ pc = "returned" /\ ~adjusted
    /\ Len(result) >= 1
    /\ Len(result) < BestSize(input.items)

\* The non-trivial blossoms that contain both x and y.
BlossomsAround(c, x, y) ==
    {b \in c.nontrivial_blossom : {x, y} \subseteq Range(vertices(c, b))}

RECURSIVE SumDualVar(_, _)
SumDualVar(c, B) ==
    IF B = {} THEN 0
    ELSE LET b == CHOOSE b \in B : TRUE
         IN c.blossom[b].dual_var + SumDualVar(c, B \ {b})

\* Twice the slack of edge e: the duals of its endpoints and of the blossoms
\* that contain it, minus its weight.
TrueSlack2x(c, e) ==
    LET ed == c.graph.edges[e]
    IN c.vertex_dual_2x[ed[1]] + c.vertex_dual_2x[ed[2]] - 2 * ed[3]
           + 2 * SumDualVar(c, BlossomsAround(c, ed[1], ed[2]))

DualityConditions(c) ==
    /\ \A x \in DOMAIN c.vertex_dual_2x : c.vertex_dual_2x[x] >= 0
    /\ \A b \in c.nontrivial_blossom : c.blossom[b].dual_var >= 0
    /\ \A x \in DOMAIN c.vertex_mate : c.vertex_mate[x] = -1 => c.vertex_dual_2x[x] = 0
    /\ \A e \in 1..Len(c.graph.edges) : TrueSlack2x(c, e) >= 0
    /\ \A e \in 1..Len(c.graph.edges) :
          c.vertex_mate[c.graph.edges[e][1]] = c.graph.edges[e][2] => TrueSlack2x(c, e) = 0

\* C3: for integer weights the state left by the stage loop and cleanup()
\* satisfies the duality conditions (vertex duals >= 0, blossom duals >= 0,
\* unmatched vertices have dual 0, every edge has slack >= 0 counting the
\* blossoms around it, matched edges have slack 0), verify_optimum accepts it
\* whatever order it walks the blossoms in, and MatchingError is never raised.
C3_VerifyOptimumNeverFails ==
    /\ error # "MatchingError"
    /\ pc = "verify" =>
          /\ DualityConditions(ctx)
          /\ \A order \in Orderings(ctx.nontrivial_blossom) :
                verify_optimum(ctx, order) = "ok"

\* C3 witness: verify_optimum is about to run on a state with a blossom of
\* positive dual around a matched edge.
C3_Witness ==
    /\ pc = "verify"
    /\ \E b \in ctx.nontrivial_blossom : ctx.blossom[b].dual_var > 0
    /\ \E e \in 1..Len(ctx.graph.edges) :
          /\ ctx.vertex_mate[ctx.graph.edges[e][1]] = ctx.graph.edges[e][2]
          /\ BlossomsAround(ctx, ctx.graph.edges[e][1], ctx.graph.edges[e][2]) # {}

\* C4: the loop "while ctx.run_stage()" terminates.  Once the stage loop is
\* entered it is eventually left through a substage that chose delta1 (so
\* every stage has finitely many substages), and at most floor(n/2) calls
\* of run_stage return True.
C4_StageLoopTerminates ==
    /\ [](pc \in {"stage", "delta", "cleanup"} => stage <= ctx.graph.num_vertex \div 2)
    /\ (pc = "stage") ~> (pc = "cleanup" /\ delta.delta_type = 1)

\* C4 witness: the loop ended with delta1 after two calls of run_stage returned True.
C4_Witness == pc = "cleanup" /\ delta.delta_type = 1 /\ stage >= 2

\* C5: a substage in which run_stage returns True leaves exactly two more
\* matched vertices; every other substage, the one in which run_stage
\* returns False included, leaves vertex_mate as it was.  So a call that
\* returns True adds exactly 2 matched vertices and a call that returns
\* False changes nothing.
C5_StageAddsOneMatchedEdge ==
    [][(pc \in {"stage", "delta"} /\ pc' \in {"stage", "delta", "cleanup"}) =>
          IF stage' = stage + 1
          THEN Cardinality(MatchedVertices(ctx')) = Cardinality(MatchedVertices(ctx)) + 2
          ELSE ctx'.vertex_mate = ctx.vertex_mate]_vars

\* C5 witness: a call of run_stage returned False after earlier calls
\* returned True, one of them augmenting through a blossom.
C5_Witness ==
    /\ pc = "cleanup" /\ stage >= 2
    /\ ctx.nontrivial_blossom # {}

\* C6: maximum_weight_matching is deterministic: whatever order the sets of
\* blossoms are iterated in, a second call on the same list returns the list
\* of pairs that the first call returned.
C6_SameResultForEveryIterationOrder ==
    (pc = "returned" /\ first # <<>>) => result = first[1]

\* C6 witness: two calls on one list have returned different lists of three
\* pairs, both of maximum weight.
C6_Witness ==
    /\ pc = "returned" /\ first # <<>>
    /\ Len(result) >= 3
    /\ SumWeights(input.items, EdgesOfPairs(input.items, result)) = BestWeight(input.items)
    /\ SumWeights(input.items, EdgesOfPairs(input.items, first[1])) = BestWeight(input.items)
    /\ result # first[1]

\* C7: maximum_weight_matching(adjust_weights_for_maximum_cardinality_matching(E))
\* has as many pairs as the largest matching of E, and the original weights
\* of its pairs add up to the largest total among the matchings of E of that
\* size (integer weights, negative ones included).
C7_AdjustedRunIsMaximumCardinality ==
    (adjusted /\ pc = "returned") =>
        /\ Cardinality(EdgesOfPairs(orig.items, result)) = Len(result)
        /\ Len(result) = BestSize(orig.items)
        /\ SumWeights(orig.items, EdgesOfPairs(orig.items, result))
               = BestWeightOfBestSize(orig.items)

\* C7 witness: on the adjusted weights the call returned a largest matching
\* of E that is not a maximum-weight matching of E, E having a negative weight.
C7_Witness ==
    /\ adjusted /\ pc = "returned"
    /\ Len(result) >= 2
    /\ \E e \in 1..Len(orig.items) : orig.items[e].w < 0
    /\ SumWeights(orig.items, EdgesOfPairs(orig.items, result)) < BestWeight(orig.items)

IntWeights(arg) == \A i \in 1..Len(arg.items) : arg.items[i].kind = "int"

\* b is a with the same edges in the same order and every weight increased by
\* one constant d >= 0.
ShiftedByConstant(a, b) ==
    /\ Len(b) = Len(a)
    /\ \A i \in 1..Len(a) : b[i].kind = a[i].kind /\ b[i].x = a[i].x /\ b[i].y = a[i].y
    /\ a # <<>> =>
          /\ b[1].w - a[1].w >= 0
          /\ \A i \in 1..Len(a) : b[i].w - a[i].w = b[1].w - a[1].w

\* Every weight is > 0 and the minimum weight is >= n * (maximum - minimum),
\* n = 1 + the largest vertex index.
RangeBelowMinimum(items) ==
    LET W == {items[i].w : i \in 1..Len(items)}
        n == 1 + MaxOf({items[i].x : i \in 1..Len(items)}
                       \cup {items[i].y : i \in 1..Len(items)})
    IN items # <<>> =>
          /\ \A w \in W : w > 0
          /\ MinOf(W) >= n * (MaxOf(W) - MinOf(W))

\* What C8 says of a list the adjust function was called on, of the list it
\* returned and, in "readjusted", of the list it returned for that list.
AdjustContract ==
    /\ ShiftedByConstant(orig.items, input.items)
    /\ RangeBelowMinimum(input.items)
    /\ RangeBelowMinimum(orig.items) => input = orig
    /\ pc = "readjusted" => result = input

\* C8 as stated, for every list the adjust function accepts: the result has
\* the same edges in the same order, every weight increased by one constant
\* delta >= 0 (the assertion never fails), every weight of the result is > 0
\* and the minimum is >= n * (maximum - minimum); a list that satisfies this
\* already is returned unchanged, and a second application changes nothing.
C8_AdjustContractForAllWeights ==
    /\ error # "AssertionError"
    /\ (adjusted /\ pc \in {"idle", "readjusted"}) => AdjustContract

\* C8 on integer weights, where Python arithmetic is exact: the assertion
\* delta >= 0 never fails; on a list of integer weights the result has the same edges in the
\* same order, every weight increased by one constant delta >= 0, every weight
\* of the result is > 0 and the minimum is >= n * (maximum - minimum); a list
\* that satisfies this already is returned unchanged, and a second application
\* changes nothing.
C8_AdjustContractForIntegerWeights ==
    /\ error # "AssertionError"
    /\ (adjusted /\ pc \in {"idle", "readjusted"} /\ IntWeights(orig)) => AdjustContract

\* C8 on integer weights, witness: the adjust function has shifted a list of
\* integer weights of different values, one of them negative, and was applied
\* to its result.
C8_IntegerWeightsWitness ==
    /\ pc = "readjusted"
    /\ IntWeights(orig)
    /\ \E i, j \in 1..Len(orig.items) :
          orig.items[i].w < 0 /\ orig.items[j].w > orig.items[i].w
    /\ input # orig

\* C8 witness: the adjust function has returned a list of float weights with
\* a weight that is not positive, and its second application has returned
\* another list.
C8_Witness ==
    /\ pc = "readjusted"
    /\ ~IntWeights(orig)
    /\ \E i \in 1..Len(input.items) : input.items[i].w <= 0
    /\ result # input

\* What maximum_weight_matching does with a list before it builds anything:
\* "ok", or the exception of _check_input_types or _check_input_graph.
MwmStatus(arg) ==
    IF check_input_types(arg) # "ok" THEN check_input_types(arg)
    ELSE check_input_graph(arg)

\* A list of 3-tuples of non-negative int endpoints and an int weight.
WellTyped(arg) ==
    /\ arg.list
    /\ \A i \in 1..Len(arg.items) :
          arg.items[i].kind = "int" /\ arg.items[i].x >= 0 /\ arg.items[i].y >= 0

\* A list of 3-tuples of int endpoints and a number as weight.
WellShaped(arg) ==
    /\ arg.list
    /\ \A i \in 1..Len(arg.items) :
          arg.items[i].kind \in {"int", "float_nonfinite", "float_too_large"}

HasSelfEdge(items) == \E i \in 1..Len(items) : items[i].x = items[i].y

HasDuplicateEdge(items) ==
    \E i, j \in 1..Len(items) :
        i # j /\ {items[i].x, items[i].y} = {items[j].x, items[j].y}

\* C9 as stated: the two functions have the same input contract.  A list the
\* adjust function has accepted is accepted by maximum_weight_matching, and a
\* list the adjust function has rejected is rejected by maximum_weight_matching.
C9_SameInputContract ==
    /\ (adjusted /\ pc = "idle") => MwmStatus(orig) = "ok"
    /\ pc = "adjust_raised" => MwmStatus(orig) # "ok"

\* C9, what the code does: the adjust function runs the element checks of
\* _check_input_types only.  It accepts exactly the well-typed lists and
\* rejects the others with the exception maximum_weight_matching raises for
\* them; every list maximum_weight_matching accepts it accepts; a well-typed
\* list with a self-edge or a duplicate edge it accepts, while
\* maximum_weight_matching rejects that list with ValueError.
C9_AdjustChecksElementsOnly ==
    /\ (adjusted /\ pc = "idle") => WellTyped(orig)
    /\ pc = "adjust_raised" =>
          /\ ~WellTyped(orig)
          /\ error \in {"TypeError", "ValueError"}
          /\ error = MwmStatus(orig)
    /\ (~adjusted /\ pc = "validated") => WellTyped(orig)
    /\ (adjusted /\ pc = "idle" /\ (HasSelfEdge(orig.items) \/ HasDuplicateEdge(orig.items)))
          => MwmStatus(orig) = "ValueError"

\* C9 witness: the adjust function accepted a list with a self-edge or a
\* duplicate edge, and maximum_weight_matching then raised ValueError on
\* the list it returned.
C9_Witness ==
    /\ adjusted /\ pc = "raised" /\ error = "ValueError"
    /\ WellTyped(orig)
    /\ HasSelfEdge(orig.items) \/ HasDuplicateEdge(orig.items)

\* C10: for a list of 3-tuples with int endpoints and number weights that
\* has a self-edge or two edges on the same unordered pair,
\* maximum_weight_matching raises ValueError, whatever the weights, and no
\* GraphInfo or MatchingContext exists at any time.
C10_SelfAndDuplicateEdgesRejected ==
    (WellShaped(input) /\ (HasSelfEdge(input.items) \/ HasDuplicateEdge(input.items))) =>
        /\ pc \in {"idle", "raised", "adjust_raised"}
        /\ ctx = NoCtx
        /\ pc = "raised" => error = "ValueError"

\* C10 witness: ValueError was raised for two edges on one pair given in
\* opposite orientations, one of negative weight, the list having no self-edge.
C10_Witness ==
    /\ pc = "raised" /\ error = "ValueError" /\ ctx = NoCtx
    /\ ~HasSelfEdge(input.items)
    /\ \E i, j \in 1..Len(input.items) :
          /\ input.items[i].x = input.items[j].y /\ input.items[i].y = input.items[j].x
          /\ input.items[i].w < 0

\* C11: no returned pair is an edge of negative weight of the list
\* maximum_weight_matching was called with, and a list that is empty or holds
\* only edges of negative weight yields the empty list.
C11_NoNegativeEdgeReturned ==
    pc = "returned" =>
        /\ \A k \in 1..Len(result) : \A i \in 1..Len(input.items) :
               (input.items[i].x = result[k][1] /\ input.items[i].y = result[k][2])
                   => input.items[i].w >= 0
        /\ (\A i \in 1..Len(input.items) : input.items[i].w < 0) => result = <<>>

\* C11 witness: a call has returned pairs on a list that has an edge of
\* negative weight to a vertex that no returned pair covers.
C11_Witness ==
    /\ pc = "returned"
    /\ result # <<>>
    /\ \E i \in 1..Len(input.items) :
          /\ input.items[i].w < 0
          /\ \A k \in 1..Len(result) : input.items[i].x \notin {result[k][1], result[k][2]}


(***************************************************************************)
(* C12: the cycle of five edges of weight 1.                               *)
(***************************************************************************)
FiveCycle ==
    EdgeList(<< <<0, 1, 1>>, <<1, 2, 1>>, <<2, 3, 1>>, <<3, 4, 1>>, <<4, 0, 1>> >>)

\* make_blossom has run in this call: a NonTrivialBlossom has been constructed,
\* so the blossom counter has passed the number of vertices.
MadeBlossom == pc \in {"stage", "delta", "cleanup", "verify", "returned"}
               /\ ctx.next_blossom > ctx.graph.num_vertex

\* The substage has computed delta type 1, or the stage loop has ended with it.
AtFinalDelta1 ==
    \/ pc = "delta" /\ delta.delta_type = 1
    \/ pc \in {"cleanup", "verify", "returned"}

\* C12: on the 5-cycle with weights 1, a started call returns; whenever the
\* run is at its final delta1 step or past it, make_blossom has been executed
\* before; and the call returns exactly 2 pairs.
C12_FiveCycleMakesBlossomAndReturnsTwoPairs ==
    /\ [](input = FiveCycle /\ AtFinalDelta1 => MadeBlossom)
    /\ [](input = FiveCycle /\ pc = "returned" => Len(result) = 2)
    /\ (input = FiveCycle /\ pc = "validated") ~> (pc = "returned" /\ Len(result) = 2)

\* C12 witness: the call on the 5-cycle is about to take the delta1 step, with
\* a blossom of three or more sub-blossoms in place and two matched edges.
C12_Witness ==
    /\ input = FiveCycle
    /\ pc = "delta" /\ delta.delta_type = 1
    /\ MadeBlossom
    /\ ctx.nontrivial_blossom # {}
    /\ Cardinality({x \in DOMAIN ctx.vertex_mate : ctx.vertex_mate[x] # NoneId}) = 4

(***************************************************************************)
(* C19, C20: PriorityQueue.                                                *)
(***************************************************************************)
\* C19: after any sequence of insert, delete, decrease_prio and
\* increase_prio on handles of elements in the queue, find_min() returns an
\* element that is in the queue, with the priority the caller gave it last,
\* and that priority is the least in the queue; on an empty queue find_min()
\* raises IndexError and empty() is True.
C19_FindMinIsMinimum ==
    /\ pq.ok
    /\ pq.elems # <<>> =>
          LET m == PQ_find_min(pq.heap)
          IN /\ m # IndexError
             /\ ~PQ_empty(pq.heap)
             /\ m.data \in DOMAIN pq.elems
             /\ m.prio = pq.elems[m.data]
             /\ \A d \in DOMAIN pq.elems : m.prio <= pq.elems[d]
    /\ pq.elems = <<>> => PQ_find_min(pq.heap) = IndexError /\ PQ_empty(pq.heap)

\* C19 witness: a full queue whose minimum sits at the root although it was
\* not inserted first and an element of larger priority is still queued.
C19_Witness ==
    /\ pq.ok
    /\ Len(pq.heap) = MaxHeapLen
    /\ PQ_find_min(pq.heap).data # 1
    /\ \E d \in DOMAIN pq.elems : pq.elems[d] > PQ_find_min(pq.heap).prio
    /\ \A d \in DOMAIN pq.elems \ {PQ_find_min(pq.heap).data} :
          pq.elems[d] > PQ_find_min(pq.heap).prio

\* C20: after every operation the node at Python position i has index i and
\* a priority not smaller than that of the node at (i-1)//2; the heap holds
\* exactly the elements inserted and not deleted, each once; so every handle
\* passes the "self.heap[elem.index] is elem" check of delete, decrease_prio
\* and increase_prio.
C20_IndexAndHeapOrder ==
    /\ pq.ok
    /\ \A i \in 0..(Len(pq.heap) - 1) :
          /\ pq.heap[i + 1].index = i
          /\ i > 0 => pq.heap[i + 1].prio >= pq.heap[((i - 1) \div 2) + 1].prio
    /\ Len(pq.heap) = Cardinality(DOMAIN pq.elems)
    /\ \A d \in DOMAIN pq.elems :
          /\ PQ_has(pq.heap, d)
          /\ PQ_is_elem(pq.heap, d)
          /\ PQ_node(pq.heap, d).prio = pq.elems[d]

\* C20 witness: a full heap in which no element is at the position it was
\* inserted at.
C20_Witness ==
    /\ pq.ok
    /\ Len(pq.heap) = MaxHeapLen
    /\ \A i \in 1..Len(pq.heap) : pq.heap[i].data # i
    /\ \A d \in DOMAIN pq.elems : PQ_is_elem(pq.heap, d)

(***************************************************************************)
(* C13..C18: ConcatenableQueue.                                            *)
(***************************************************************************)
\* The leaves below a node, from left to right.
RECURSIVE CQ_leaves(_, _)
CQ_leaves(S, node) ==
    IF S.node[node].height = 0 THEN <<node>>
    ELSE Flatten([i \in 1..Len(S.node[node].childs) |-> CQ_leaves(S, S.node[node].childs[i])])

\* The nodes of the tree below a node, the node included.
RECURSIVE CQ_subtree(_, _)
CQ_subtree(S, node) ==
    {node} \cup UNION {CQ_subtree(S, S.node[node].childs[i]) : i \in 1..Len(S.node[node].childs)}

\* The queues that own elements according to the calls made so far.
CQOwners == {q \in CQNames : cq.content[q] # <<>>}

\* The least of the priorities given last to the elements of q.
CQLeastPrio(q) == MinOf({cq.prio[leaf] : leaf \in Range(cq.content[q])})

\* C13: while no call has raised, for every queue q that owns elements,
\* q.min_prio() is the least of the current priorities of the elements of q,
\* and q.min_elem() is the data of an element of q that has this priority.
C13_MinPrioAndMinElem ==
    cq.raised = "none" =>
        \A q \in CQOwners :
            /\ CQ_min_prio_call(cq.S, q) = Returned(CQLeastPrio(q))
            /\ \E leaf \in Range(cq.content[q]) :
                  /\ cq.prio[leaf] = CQLeastPrio(q)
                  /\ cq.S.node[leaf].prio = cq.prio[leaf]
                  /\ CQ_min_elem_call(cq.S, q) = Returned(cq.S.node[leaf].data)

\* C13 witness: a queue merged from queues that had been merged and split
\* before, whose least element is neither its first nor its last one and got
\* its priority by set_prio.
C13_Witness ==
    /\ cq.raised = "none"
    /\ cq.merges = MaxMerges
    /\ \E q \in CQOwners :
          LET leaves == cq.content[q]
          IN /\ Len(leaves) >= 3
             /\ \E i \in 2..(Len(leaves) - 1) :
                   /\ cq.prio[leaves[i]] = 0
                   /\ \A j \in (1..Len(leaves)) \ {i} : cq.prio[leaves[j]] > 0
                   /\ CQ_min_elem_call(cq.S, q) = Returned(cq.S.node[leaves[i]].data)

\* C14: while no call has raised, find() on the handle of an element returns
\* the name of the queue that owns it: the merged queue while the merge
\* stands, the sub-queue it came from once the merged queue has been split.
C14_FindReturnsOwner ==
    cq.raised = "none" =>
        \A q \in CQNames : \A leaf \in Range(cq.content[q]) :
            CQ_find_call(cq.S, leaf) = Returned(q)

\* C14 witness: after two merges and a split, one element is back in the
\* queue it was inserted into and another one is in a merged queue.
C14_Witness ==
    /\ cq.raised = "none"
    /\ cq.merges = MaxMerges
    /\ \E q \in CQOwners : cq.saved[q] # <<>> /\ Len(cq.content[q]) >= 2
    /\ \E q \in CQOwners :
          /\ cq.saved[q] = <<>>
          /\ q \in CQLive
          /\ CQ_find_call(cq.S, cq.content[q][1]) = Returned(q)
    /\ Cardinality({q \in CQNames : cq.saved[q] # <<>>}) < MaxMerges

\* A queue is empty: it holds no tree, and min_prio() and min_elem() fail
\* on it.
CQIsEmpty(S, q) ==
    /\ S.queue[q].tree = NoneId
    /\ CQ_min_prio_call(S, q) = Raised("AssertionError")
    /\ CQ_min_elem_call(S, q) = Raised("AssertionError")

\* Queue q holds exactly the leaves of cq.content[q], in this order, and
\* find, min_prio and min_elem answer for them.
CQHolds(q) ==
    /\ cq.S.queue[q].tree # NoneId
    /\ cq.S.node[cq.S.queue[q].tree].owner = q
    /\ CQ_leaves(cq.S, cq.S.queue[q].tree) = cq.content[q]
    /\ cq.S.queue[q].first_node = cq.content[q][1]
    /\ \A leaf \in Range(cq.content[q]) : CQ_find_call(cq.S, leaf) = Returned(q)
    /\ CQ_min_prio_call(cq.S, q) = Returned(CQLeastPrio(q))
    /\ CQ_min_elem_call(cq.S, q).raised = "none"

\* Every queue that is not held by a merged queue holds its elements in
\* their order, or is empty if it has none.
SplitGivesBack ==
    \A q \in CQLive :
        IF cq.content[q] = <<>>
        THEN /\ CQIsEmpty(cq.S, q)
             /\ cq.S.queue[q].first_node = NoneId
             /\ cq.S.queue[q].sub_queues = <<>>
        ELSE CQHolds(q)

\* C15: Q.merge([q1..qk]), k >= 1, followed by set_prio calls and Q.split()
\* never raises, leaves Q empty and gives each qi back the elements it held
\* before the merge, in their order, each qi answering find, min_prio and
\* min_elem for them.
C15_SplitUndoesMerge ==
    /\ cq.last.op = "split" => cq.raised = "none"
    /\ cq.raised = "none" => SplitGivesBack

\* C15, what the code does: split() gives the elements back as described
\* when the merged queue has two or more sub-queues; with one sub-queue it
\* raises UnboundLocalError, the merged queue keeping its tree, whose root
\* has lost its owner.
C15_SplitUndoesMergeOfTwoOrMore ==
    /\ cq.last.op = "split" =>
          /\ cq.raised = "UnboundLocalError"
          /\ Len(cq.last.subs) = 1
          /\ cq.S.queue[cq.last.q].tree # NoneId
          /\ cq.S.node[cq.S.queue[cq.last.q].tree].owner = NoneId
          /\ CQ_find_call(cq.S, cq.content[cq.last.q][1]) = Raised("AssertionError")
    /\ cq.raised = "none" => SplitGivesBack

\* C15 witness: split() has raised on a queue merged from one queue.
C15_Witness ==
    /\ cq.last.op = "split"
    /\ cq.raised = "UnboundLocalError"
    /\ Len(cq.last.subs) = 1

\* A split of a queue merged from three queues has given them back, one
\* priority having changed while they were merged.
C15_TwoOrMoreWitness ==
    /\ cq.raised = "none"
    /\ cq.merges >= 1
    /\ \A q \in CQNames : cq.saved[q] = <<>>
    /\ Cardinality(CQOwners) >= 3
    /\ SplitGivesBack

\* The queues merged into another queue at present.
CQMerged == {q \in CQNames : cq.S.queue[q].sub_queues # <<>>}

\* C16: while no call has raised, every sub-queue of a merged queue Q, the
\* first and the later ones alike, is empty, and every element they held
\* belongs to Q as long as Q is not merged into another queue itself.
C16_SubQueuesAreEmptied ==
    cq.raised = "none" =>
        \A q \in CQMerged :
            /\ \A i \in 1..Len(cq.S.queue[q].sub_queues) :
                  CQIsEmpty(cq.S, cq.S.queue[q].sub_queues[i])
            /\ q \in CQLive =>
                  \A leaf \in Range(Flatten(cq.saved[q])) :
                      CQ_find_call(cq.S, leaf) = Returned(q)

\* C16, what the code does: merge clears the tree of the first sub-queue
\* only; a later sub-queue keeps its tree attribute, which points at a node
\* of another queue's tree or at a discarded node, and keeps its first node;
\* the elements belong to Q.
C16_OnlyFirstSubQueueLosesItsTree ==
    cq.raised = "none" =>
        \A q \in CQMerged :
            LET subs == cq.S.queue[q].sub_queues
            IN /\ cq.S.queue[subs[1]].tree = NoneId
               /\ \A i \in 2..Len(subs) :
                     /\ cq.S.queue[subs[i]].tree # NoneId
                     /\ cq.S.node[cq.S.queue[subs[i]].tree].owner # subs[i]
                     /\ CQ_min_prio_call(cq.S, subs[i]).raised = "none"
               /\ \A i \in 1..Len(subs) :
                     cq.S.queue[subs[i]].first_node = cq.saved[q][i][1]
               /\ q \in CQLive =>
                     \A leaf \in Range(Flatten(cq.saved[q])) :
                         CQ_find_call(cq.S, leaf) = Returned(q)

\* C16 witness: a queue merged from three queues; min_prio() on the
\* second one returns a priority although it owns no element.
C16_Witness ==
    /\ cq.raised = "none"
    /\ \E q \in CQMerged :
          LET subs == cq.S.queue[q].sub_queues
          IN /\ Len(subs) = 3
             /\ cq.content[subs[2]] = <<>>
             /\ CQ_min_prio_call(cq.S, subs[2]).raised = "none"

\* The tree with root "root" obeys the rules of a 2-3 tree with minimum
\* tracking (the rules of _check_tree of the tests).
CQWellFormed(S, root) ==
    /\ S.node[root].parent = NoneId
    /\ \A n \in CQ_subtree(S, root) :
          LET node == S.node[n]
              leaves == Range(CQ_leaves(S, n))
          IN /\ n # root => node.owner = NoneId
             /\ node.min_node \in leaves
             /\ \A l \in leaves : S.node[node.min_node].prio <= S.node[l].prio
             /\ IF node.height = 0
                THEN node.childs = <<>> /\ node.min_node = n
                ELSE /\ Len(node.childs) \in {2, 3}
                     /\ \A i \in 1..Len(node.childs) :
                           /\ S.node[node.childs[i]].parent = n
                           /\ S.node[node.childs[i]].height = node.height - 1

\* C17: while no call has raised, the tree of every queue that owns
\* elements is a well-formed 2-3 tree whose root is owned by the queue.
C17_TreesAreWellFormed ==
    cq.raised = "none" =>
        \A q \in CQOwners :
            /\ cq.S.queue[q].tree # NoneId
            /\ cq.S.node[cq.S.queue[q].tree].owner = q
            /\ CQWellFormed(cq.S, cq.S.queue[q].tree)

\* C17 witness: a tree of height 2 merged from a queue of one element and a
\* queue that was merged from three.
C17_Witness ==
    /\ cq.raised = "none"
    /\ \E q \in CQOwners :
          /\ cq.S.node[cq.S.queue[q].tree].height = 2
          /\ CQWellFormed(cq.S, cq.S.queue[q].tree)
          /\ Len(cq.saved[q]) = 2
          /\ Len(cq.saved[q][1]) = 1
          /\ Len(cq.saved[q][2]) = 3

\* C18: a merge that raised has left the store as it was before the call.
C18_FailedMergeChangesNothing ==
    (cq.last.op = "merge" /\ cq.raised # "none") => cq.S = cq.last.pre

\* C18, what the code does: a merge that raised because sub-queue number i
\* is empty has stored the list of sub-queues in Q, and for i > 1 it has
\* joined the trees of the sub-queues before i into a tree that Q holds and
\* whose root has no owner, so that find() fails on their elements.
C18_FailedMergeIsPartial ==
    (cq.last.op = "merge" /\ cq.raised # "none") =>
        LET q == cq.last.q
            subs == cq.last.subs
            i == CHOOSE k \in 1..Len(subs) :
                    /\ cq.content[subs[k]] = <<>>
                    /\ \A j \in 1..(k - 1) : cq.content[subs[j]] # <<>>
        IN /\ cq.raised = "AssertionError"
           /\ cq.S.queue[q].sub_queues = subs
           /\ cq.S # cq.last.pre
           /\ i > 1 =>
                 /\ cq.S.queue[subs[1]].tree = NoneId
                 /\ cq.S.queue[q].tree # NoneId
                 /\ cq.S.node[cq.S.queue[q].tree].owner = NoneId
                 /\ CQ_leaves(cq.S, cq.S.queue[q].tree)
                        = Flatten([j \in 1..(i - 1) |-> cq.content[subs[j]]])
                 /\ \A j \in 1..(i - 1) :
                       CQ_find_call(cq.S, cq.content[subs[j]][1]) = Raised("AssertionError")

\* C18 witness: a merge has raised on its third sub-queue after joining the
\* first two.
C18_Witness ==
    /\ cq.last.op = "merge"
    /\ cq.raised = "AssertionError"
    /\ Len(cq.last.subs) >= 3
    /\ cq.content[cq.last.subs[3]] = <<>>
    /\ cq.S.queue[cq.last.q].tree # NoneId
    /\ cq.S.node[cq.S.queue[cq.last.q].tree].height = 1
\* The state in which add_s_to_s_edge calls augment_matching: both
\* alternating trees of the edge have been removed.
C21_BeforeAugmentMatching(c, e, ox, oy) ==
    LET bx == top_level_blossom(c, c.graph.edges[e][1])
        by == top_level_blossom(c, c.graph.edges[e][2])
    IN remove_alternating_tree(
           remove_alternating_tree(c, c.blossom[bx].tree_blossoms, ox),
           c.blossom[by].tree_blossoms, oy)

\* C21: vertex_mate is written only inside augment_matching and
\* augment_blossom_rec.  A substage that does not augment (scanning and the
\* delta computation, tree extension with its label assignment and its
\* expand_unlabeled_blossom, make_blossom, expand_t_blossom, the final
\* delta1) and cleanup leave vertex_mate as it was; in the substage that
\* augments, vertex_mate is still as it was when the two alternating trees
\* have been removed and augment_matching is about to be called.
C21_OnlyAugmentWritesVertexMate ==
    [][(pc \in {"stage", "delta", "cleanup"}) =>
          (IF pc = "delta" /\ delta.delta_type = 3 /\ ~SameTree(ctx, delta.delta_edge)
          THEN \A ox \in Orderings(TreeOf(ctx, ctx.graph.edges[delta.delta_edge][1])),
                  oy \in Orderings(TreeOf(ctx, ctx.graph.edges[delta.delta_edge][2])) :
                  C21_BeforeAugmentMatching(ctx, delta.delta_edge, ox, oy).vertex_mate
                      = ctx.vertex_mate
          ELSE ctx'.vertex_mate = ctx.vertex_mate)]_vars

\* C21 witness: with two vertices matched, a blossom has been made, a
\* T-blossom has been expanded or a tree has been extended, and the stage
\* loop has ended.
C21_Witness ==
    /\ pc = "verify" /\ stage >= 2
    /\ ctx.nontrivial_blossom # {}
    /\ ctx.next_blossom > ctx.graph.num_vertex + Cardinality(ctx.nontrivial_blossom)

\* The states in which a MatchingContext exists and no assertion has failed.
C22_HasContext ==
    pc \in {"stage", "delta", "cleanup", "verify", "returned"} /\ ctx # NoCtx

\* C22: at every stage boundary (and in every state between substages)
\* vertex_mate is a symmetric partial matching on edges of the graph:
\* vertex_mate[x] = y # -1 implies vertex_mate[y] = x, x # y, and the graph
\* has an edge between x and y.
C22_VertexMateIsMatching ==
    C22_HasContext =>
        \A x \in DOMAIN ctx.vertex_mate :
            LET y == ctx.vertex_mate[x]
            IN y # -1 =>
                  /\ y \in DOMAIN ctx.vertex_mate
                  /\ ctx.vertex_mate[y] = x
                  /\ x # y
                  /\ \E e \in 1..Len(ctx.graph.edges) :
                        {ctx.graph.edges[e][1], ctx.graph.edges[e][2]} = {x, y}

\* C22 witness: a stage begins after two augmentations, one of them through
\* a blossom, with four vertices matched.
C22_Witness ==
    /\ pc = "stage" /\ stage >= 2
    /\ ctx.nontrivial_blossom # {}
    /\ Cardinality(MatchedVertices(ctx)) >= 4

\* The vertices of blossom b whose mate is a vertex of b.
C23_MatchedInside(c, b) ==
    {x \in Range(vertices(c, b)) : c.vertex_mate[x] \in Range(vertices(c, b))}

\* C23: at every stage boundary (and in every state between substages), for
\* every blossom B, trivial or not, top-level or nested, base_vertex is a
\* vertex of B and the only one that is not matched to another vertex of B;
\* a non-trivial blossom of k vertices has k odd and (k-1)/2 matched edges
\* inside.
C23_BaseVertexIsOnlyExit ==
    C22_HasContext =>
        \A b \in DOMAIN ctx.blossom :
            LET vs == Range(vertices(ctx, b))
            IN /\ ctx.blossom[b].base_vertex \in vs
               /\ vs \ C23_MatchedInside(ctx, b) = {ctx.blossom[b].base_vertex}
               /\ IsNonTrivial(ctx, b) =>
                     /\ Cardinality(vs) % 2 = 1
                     /\ Cardinality(C23_MatchedInside(ctx, b)) = Cardinality(vs) - 1

\* C23 witness: a stage begins after augment_matching went through a
\* blossom and moved its base: the blossom's base is matched to a vertex
\* outside and is not the first vertex of its first sub-blossom as created.
C23_Witness ==
    /\ pc = "stage" /\ stage >= 2
    /\ \E b \in ctx.nontrivial_blossom :
          /\ ctx.vertex_mate[ctx.blossom[b].base_vertex] # -1
          /\ ctx.vertex_mate[ctx.blossom[b].base_vertex] \notin Range(vertices(ctx, b))

\* The root of the parent chain that starts at blossom b.
RECURSIVE C24_Root(_, _)
C24_Root(c, b) ==
    IF c.blossom[b].parent = NoneId THEN b ELSE C24_Root(c, c.blossom[b].parent)

\* Every vertex lies in exactly one blossom without parent, and the
\* concatenable queues name that blossom.
C24_TopLevelAgrees(c) ==
    \A x \in 0..(c.graph.num_vertex - 1) :
        /\ Cardinality({b \in (0..(c.graph.num_vertex - 1)) \cup c.nontrivial_blossom :
                           /\ c.blossom[b].parent = NoneId
                           /\ x \in Range(vertices(c, b))}) = 1
        /\ top_level_blossom(c, x) = C24_Root(c, x)
        /\ x \in Range(vertices(c, C24_Root(c, x)))

\* C24: every vertex x lies in exactly one blossom with parent None, and
\* top_level_blossom(x), read from the concatenable queues, is the root of
\* the parent chain from trivial_blossom[x].  This holds between substages,
\* so after every make_blossom, and in the state that the loop of
\* extend_tree_s_to_t leaves after its calls of expand_unlabeled_blossom.
C24_TopLevelBlossomIsParentRoot ==
    /\ C22_HasContext => C24_TopLevelAgrees(ctx)
    /\ (pc = "delta" /\ delta.delta_type = 2) =>
          \A y \in {ctx.graph.edges[delta.delta_edge][1], ctx.graph.edges[delta.delta_edge][2]} :
              ctx.blossom[top_level_blossom(ctx, y)].label = LABEL_NONE =>
                  C24_TopLevelAgrees(expand_zero_dual(ctx, y))

\* C24 witness: a blossom nested in a blossom, so that the parent chain of a
\* vertex has two steps.
C24_Witness ==
    /\ pc = "stage"
    /\ \E b \in ctx.nontrivial_blossom : ctx.blossom[b].parent # NoneId

\* C24 witness, second case: expand_unlabeled_blossom is about to run in
\* extend_tree_s_to_t.
C24_ExpandWitness ==
    /\ pc = "delta" /\ delta.delta_type = 2
    /\ \E y \in {ctx.graph.edges[delta.delta_edge][1], ctx.graph.edges[delta.delta_edge][2]} :
          /\ ctx.blossom[top_level_blossom(ctx, y)].label = LABEL_NONE
          /\ IsNonTrivial(ctx, top_level_blossom(ctx, y))
          /\ ctx.blossom[top_level_blossom(ctx, y)].dual_var = 0

\* C25: at the start of every substage, every blossom that has a parent has
\* label NONE, tree_edge None and tree_blossoms None; a top-level blossom
\* has label S or T exactly if its tree_blossoms is a set that contains it;
\* all blossoms of one alternating tree share one set: every member of a
\* set refers to that set, and the blossom at the other end of a tree_edge
\* refers to the set of the blossom that holds the edge.
C25_LabelsAndTreeSets ==
    pc = "stage" =>
        \A b \in DOMAIN ctx.blossom :
            LET B == ctx.blossom[b]
            IN /\ B.parent # NoneId =>
                     B.label = LABEL_NONE /\ B.tree_edge = <<>> /\ B.tree_blossoms = NoneId
               /\ B.parent = NoneId =>
                     /\ B.label \in {LABEL_S, LABEL_T} <=>
                            /\ B.tree_blossoms # NoneId
                            /\ B.tree_blossoms \in DOMAIN ctx.tree_sets
                            /\ b \in ctx.tree_sets[B.tree_blossoms]
                     /\ B.label = LABEL_NONE => B.tree_blossoms = NoneId
                     /\ B.tree_blossoms # NoneId =>
                            /\ \A m \in ctx.tree_sets[B.tree_blossoms] :
                                  /\ ctx.blossom[m].parent = NoneId
                                  /\ ctx.blossom[m].tree_blossoms = B.tree_blossoms
                            /\ B.tree_edge # <<>> =>
                                  ctx.blossom[top_level_blossom(ctx, B.tree_edge[1])].tree_blossoms
                                      = B.tree_blossoms

\* C25 witness: a substage starts with a tree of three or more blossoms,
\* one of them non-trivial, next to a nested blossom.
C25_Witness ==
    /\ pc = "stage"
    /\ \E t \in DOMAIN ctx.tree_sets :
          /\ Cardinality(ctx.tree_sets[t]) >= 3
          /\ ctx.tree_sets[t] \cap ctx.nontrivial_blossom # {}
    /\ \E b \in DOMAIN ctx.blossom : ctx.blossom[b].parent # NoneId

\* The true dual of non-trivial blossom b: dual_var + delta_sum_2x for a
\* top-level S-blossom, dual_var - delta_sum_2x for a top-level T-blossom,
\* dual_var for any other blossom.
C26_TrueDual(c, b) ==
    IF c.blossom[b].parent # NoneId THEN c.blossom[b].dual_var
    ELSE IF c.blossom[b].label = LABEL_S THEN c.blossom[b].dual_var + c.delta_sum_2x
    ELSE IF c.blossom[b].label = LABEL_T THEN c.blossom[b].dual_var - c.delta_sum_2x
    ELSE c.blossom[b].dual_var

\* C26: whenever a non-trivial blossom is expanded its true dual is exactly
\* 0.  A step that removes blossoms from nontrivial_blossom is a substage
\* of delta type 4, which expands the T-blossom the delta step chose and
\* no other, or a substage of delta type 2, where extend_tree_s_to_t
\* expands unlabeled blossoms; every blossom removed had true dual 0 when
\* the step began (the delta of the substage applied).
C26_ExpandedBlossomHasZeroDual ==
    [][(pc \in {"stage", "delta", "cleanup", "verify"}) =>
          \A b \in ctx.nontrivial_blossom \ ctx'.nontrivial_blossom :
              /\ pc = "delta" /\ delta.delta_type \in {2, 4}
              /\ C26_TrueDual(ctx, b) = 0
              /\ delta.delta_type = 4 =>
                    /\ b = delta.delta_blossom
                    /\ ctx.blossom[b].label = LABEL_T /\ ctx.blossom[b].parent = NoneId
              /\ delta.delta_type = 2 => ctx.blossom[b].label = LABEL_NONE]_vars

\* C26 witness: a delta4 step of positive size has brought the dual of a
\* T-blossom down to 0 and expand_t_blossom is about to expand it.
C26_Witness ==
    /\ pc = "delta" /\ delta.delta_type = 4 /\ delta.delta_2x > 0
    /\ delta.delta_blossom \in ctx.nontrivial_blossom
    /\ C26_TrueDual(ctx, delta.delta_blossom) = 0

\* C26 witness, second case: extend_tree_s_to_t is about to expand an
\* unlabeled blossom that holds another blossom.
C26_UnlabeledWitness ==
    /\ pc = "delta" /\ delta.delta_type = 2
    /\ \E y \in {ctx.graph.edges[delta.delta_edge][1], ctx.graph.edges[delta.delta_edge][2]} :
          LET by == top_level_blossom(ctx, y)
          IN /\ ctx.blossom[by].label = LABEL_NONE
             /\ IsNonTrivial(ctx, by)
             /\ ctx.blossom[by].dual_var = 0

\* Twice the true dual of vertex x: vertex_dual_2x[x] - delta_sum_2x for an
\* S-vertex, vertex_dual_2x[x] + vertex_dual_offset + delta_sum_2x for a
\* T-vertex, vertex_dual_2x[x] + vertex_dual_offset for an unlabeled one;
\* label and offset are those of the top-level blossom of x.
C27_TrueVertexDual2x(c, x) ==
    LET B == c.blossom[top_level_blossom(c, x)]
    IN IF B.label = LABEL_S THEN c.vertex_dual_2x[x] - c.delta_sum_2x
       ELSE IF B.label = LABEL_T
       THEN c.vertex_dual_2x[x] + B.vertex_dual_offset + c.delta_sum_2x
       ELSE c.vertex_dual_2x[x] + B.vertex_dual_offset

RECURSIVE C27_SumTrueDual(_, _)
C27_SumTrueDual(c, B) ==
    IF B = {} THEN 0
    ELSE LET b == CHOOSE b \in B : TRUE
         IN C26_TrueDual(c, b) + C27_SumTrueDual(c, B \ {b})

\* Twice the true slack of edge e, the duals of the blossoms that contain
\* both endpoints included.
C27_TrueSlack2x(c, e) ==
    LET ed == c.graph.edges[e]
    IN C27_TrueVertexDual2x(c, ed[1]) + C27_TrueVertexDual2x(c, ed[2]) - 2 * ed[3]
           + 2 * C27_SumTrueDual(c, BlossomsAround(c, ed[1], ed[2]))

\* The edges of the graph between vertices x and y.
C27_EdgesBetween(c, x, y) ==
    {e \in 1..Len(c.graph.edges) : {c.graph.edges[e][1], c.graph.edges[e][2]} = {x, y}}

C27_Feasible(c) ==
    /\ \A x \in 0..(c.graph.num_vertex - 1) : C27_TrueVertexDual2x(c, x) >= 0
    /\ \A b \in c.nontrivial_blossom : C26_TrueDual(c, b) >= 0
    /\ \A e \in 1..Len(c.graph.edges) :
          /\ C27_TrueSlack2x(c, e) >= 0
          /\ c.vertex_mate[c.graph.edges[e][1]] = c.graph.edges[e][2] =>
                C27_TrueSlack2x(c, e) = 0
    /\ \A b \in DOMAIN c.blossom :
          c.blossom[b].tree_edge # <<>> =>
              /\ C27_EdgesBetween(c, c.blossom[b].tree_edge[1], c.blossom[b].tree_edge[2]) # {}
              /\ \A e \in C27_EdgesBetween(c, c.blossom[b].tree_edge[1],
                                            c.blossom[b].tree_edge[2]) :
                    C27_TrueSlack2x(c, e) = 0

\* C27: at the start of every substage the true duals are feasible: vertex
\* duals >= 0, duals of non-trivial blossoms >= 0, every edge has slack
\* >= 0 (counting the blossoms that contain both endpoints), and every
\* matched edge and every tree_edge has slack exactly 0.
C27_DualsAreFeasible == pc = "stage" => C27_Feasible(ctx)

\* C27 witness: a substage starts after delta steps of positive size with a
\* labelled non-trivial blossom of positive true dual, a T-vertex whose
\* dual is held lazily, and an edge of positive slack.
C27_Witness ==
    /\ pc = "stage" /\ ctx.delta_sum_2x > 0
    /\ \E b \in ctx.nontrivial_blossom :
          ctx.blossom[b].label # LABEL_NONE /\ C26_TrueDual(ctx, b) > 0
    /\ \E x \in 0..(ctx.graph.num_vertex - 1) :
          /\ ctx.blossom[top_level_blossom(ctx, x)].label = LABEL_T
          /\ C27_TrueVertexDual2x(ctx, x) # ctx.vertex_dual_2x[x]
    /\ \E e \in 1..Len(ctx.graph.edges) : C27_TrueSlack2x(ctx, e) > 0

\* The candidates that calc_dual_delta_step reads in state c: delta1, and
\* delta2, delta3, delta4 where the queue has an entry.
C28_Candidates(c) ==
    {c.start_vertex_dual_2x - c.delta_sum_2x}
        \cup (IF delta2_get_min_edge(c)[1] # NoneId THEN {delta2_get_min_edge(c)[2]} ELSE {})
        \cup (IF delta3_get_min_edge(c)[2] # NoneId THEN {delta3_get_min_edge(c)[3]} ELSE {})
        \cup (IF PQ_empty(c.delta4_queue) THEN {}
              ELSE {PQ_find_min(c.delta4_queue).prio - c.delta_sum_2x})

\* The label of the top-level blossom of vertex x.
C28_Label(c, x) == c.blossom[top_level_blossom(c, x)].label

\* The same candidates computed from the true duals: the slack of every
\* edge between an S-vertex and an unlabeled vertex, half the slack of
\* every edge between S-vertices of different top-level blossoms, and the
\* dual of every top-level non-trivial T-blossom.
C28_TrueCandidates(c) ==
    {c.start_vertex_dual_2x - c.delta_sum_2x}
        \cup {C27_TrueSlack2x(c, e) : e \in {e \in 1..Len(c.graph.edges) :
                  {C28_Label(c, c.graph.edges[e][1]), C28_Label(c, c.graph.edges[e][2])}
                      = {LABEL_S, LABEL_NONE}}}
        \cup {C27_TrueSlack2x(c, e) \div 2 : e \in {e \in 1..Len(c.graph.edges) :
                  /\ C28_Label(c, c.graph.edges[e][1]) = LABEL_S
                  /\ C28_Label(c, c.graph.edges[e][2]) = LABEL_S
                  /\ top_level_blossom(c, c.graph.edges[e][1])
                        # top_level_blossom(c, c.graph.edges[e][2])}}
        \cup {C26_TrueDual(c, b) : b \in {b \in c.nontrivial_blossom :
                  c.blossom[b].parent = NoneId /\ c.blossom[b].label = LABEL_T}}

C28_DeltaIsMinimum ==
    pc = "stage" =>
        LET cs == scan_new_s_vertices(ctx)
            d == calc_dual_delta_step(cs)
        IN /\ d.delta_2x = MinOf(C28_Candidates(cs))
           /\ d.delta_2x = MinOf(C28_TrueCandidates(ctx))
           /\ d.delta_2x >= 0

C28_DeltaSumIsBounded ==
    C22_HasContext =>
        ctx.delta_sum_2x >= 0 /\ ctx.delta_sum_2x <= ctx.start_vertex_dual_2x

\* C28: in every substage the delta_2x that calc_dual_delta_step returns is
\* the minimum of the available candidates delta1 (start_vertex_dual_2x -
\* delta_sum_2x), delta2, delta3 and delta4, and it is >= 0; delta_sum_2x
\* never decreases and never exceeds start_vertex_dual_2x.
C28_DeltaStepIsMinimumAndBounded ==
    /\ [](C28_DeltaIsMinimum)
    /\ [](C28_DeltaSumIsBounded)
    /\ [][(pc \in {"stage", "delta", "cleanup", "verify"}) =>
            ctx'.delta_sum_2x >= ctx.delta_sum_2x]_vars

\* C28 witness: a substage starts in which three candidates are available
\* and the minimum is positive and below delta1.
C28_Witness ==
    /\ pc = "stage"
    /\ Cardinality(C28_Candidates(scan_new_s_vertices(ctx))) >= 3
    /\ MinOf(C28_Candidates(scan_new_s_vertices(ctx))) > 0
    /\ MinOf(C28_Candidates(scan_new_s_vertices(ctx)))
          < ctx.start_vertex_dual_2x - ctx.delta_sum_2x

\* The delta types among 2, 3 and 4 whose candidate is available in state
\* c and equals the minimum of all candidates.
C29_TiedTypes(c) ==
    LET m == MinOf(C28_Candidates(c))
    IN (IF delta2_get_min_edge(c)[1] # NoneId /\ delta2_get_min_edge(c)[2] = m
        THEN {2} ELSE {})
       \cup (IF delta3_get_min_edge(c)[2] # NoneId /\ delta3_get_min_edge(c)[3] = m
             THEN {3} ELSE {})
       \cup (IF ~PQ_empty(c.delta4_queue)
                 /\ PQ_find_min(c.delta4_queue).prio - c.delta_sum_2x = m
             THEN {4} ELSE {})

\* C29 as stated: when two or more of delta2, delta3 and delta4 equal the
\* minimum delta, calc_dual_delta_step selects the type that comes first
\* in evaluation order (delta2 before delta3 before delta4).
C29_FirstTiedTypeIsSelected ==
    pc = "stage" =>
        LET cs == scan_new_s_vertices(ctx)
        IN Cardinality(C29_TiedTypes(cs)) >= 2 =>
              calc_dual_delta_step(cs).delta_type = MinOf(C29_TiedTypes(cs))

\* C29 as the code behaves: every candidate replaces the earlier one when
\* it is less than or equal to it, so among delta2, delta3 and delta4 equal
\* to the minimum delta the type evaluated last is selected (delta4 in
\* preference to delta3, delta3 in preference to delta2), and any of them
\* in preference to an equal delta1.
C29_LastTiedTypeIsSelected ==
    pc = "stage" =>
        LET cs == scan_new_s_vertices(ctx)
        IN C29_TiedTypes(cs) # {} =>
              calc_dual_delta_step(cs).delta_type = MaxOf(C29_TiedTypes(cs))

\* C29 witness: a substage starts in which delta2 and delta3 are both equal
\* to the minimum delta.
C29_Witness ==
    /\ pc = "stage"
    /\ {2, 3} \subseteq C29_TiedTypes(scan_new_s_vertices(ctx))

\* C29 witness, second case: delta4 ties with delta2 or delta3.
C29_Delta4Witness ==
    /\ pc = "stage"
    /\ 4 \in C29_TiedTypes(scan_new_s_vertices(ctx))
    /\ Cardinality(C29_TiedTypes(scan_new_s_vertices(ctx))) >= 2

\* The edges of kind "S to unlabeled" or "S to S in another top-level blossom".
C30_GrowEdges(c) ==
    {e \in 1..Len(c.graph.edges) :
        LET x == c.graph.edges[e][1]
            y == c.graph.edges[e][2]
        IN \/ {C28_Label(c, x), C28_Label(c, y)} = {LABEL_S, LABEL_NONE}
           \/ /\ C28_Label(c, x) = LABEL_S /\ C28_Label(c, y) = LABEL_S
              /\ top_level_blossom(c, x) # top_level_blossom(c, y)}

\* The top-level non-trivial T-blossoms.
C30_TBlossoms(c) ==
    {b \in c.nontrivial_blossom :
        c.blossom[b].parent = NoneId /\ c.blossom[b].label = LABEL_T}

\* The state in which run_stage returns False: nothing is tight.
C30_NothingTight(c) ==
    /\ c.delta_sum_2x = c.start_vertex_dual_2x
    /\ \A x \in 0..(c.graph.num_vertex - 1) :
          c.vertex_mate[x] = -1 =>
              C28_Label(c, x) = LABEL_S /\ C27_TrueVertexDual2x(c, x) = 0
    /\ \A e \in C30_GrowEdges(c) : C27_TrueSlack2x(c, e) > 0
    /\ \A b \in C30_TBlossoms(c) : C26_TrueDual(c, b) > 0

C30_NothingTightAtStageEnd ==
    ((pc = "delta" /\ delta.delta_type = 1) \/ pc = "cleanup") => C30_NothingTight(ctx)

\* C30: run_stage returns False only in a substage where delta type 1 is
\* chosen, and in that substage, after the delta is applied, delta_sum_2x
\* equals start_vertex_dual_2x (every unmatched vertex has dual 0), no edge
\* between an S-vertex and an unlabeled vertex is tight, no edge between
\* S-vertices of different top-level blossoms is tight, and no top-level
\* T-blossom has dual 0.
C30_StageEndsOnlyWhenNothingIsTight ==
    /\ [][(pc' = "cleanup" /\ pc # "cleanup") =>
            (pc = "delta" /\ delta.delta_type = 1)]_vars
    /\ [](C30_NothingTightAtStageEnd)

\* C30 witness: run_stage has returned False with a top-level T-blossom in
\* a tree and an edge between S-vertices of different top-level blossoms.
C30_Witness ==
    /\ pc = "cleanup"
    /\ C30_TBlossoms(ctx) # {}
    /\ \E e \in C30_GrowEdges(ctx) :
          C28_Label(ctx, ctx.graph.edges[e][1]) = C28_Label(ctx, ctx.graph.edges[e][2])

\* C30 witness, second case: run_stage has returned False after a last
\* delta step of positive size, with an edge between an S-vertex and an
\* unlabeled vertex.
C30_UnlabeledWitness ==
    /\ pc = "cleanup" /\ delta.delta_2x > 0
    /\ \E e \in C30_GrowEdges(ctx) :
          C28_Label(ctx, ctx.graph.edges[e][1]) # C28_Label(ctx, ctx.graph.edges[e][2])

(***************************************************************************)
(* C31..C40: the steps of a substage.                                      *)
(***************************************************************************)
\* The blossoms of the two alternating trees that the delta3 edge joins.
C31_TwoTrees(c, e) == TreeOf(c, c.graph.edges[e][1]) \cup TreeOf(c, c.graph.edges[e][2])

\* A substage on a delta3 edge is about to call add_s_to_s_edge.
C31_AtDelta3 == pc = "delta" /\ delta.delta_type = 3

C31_PathIsOddAndCycleIffSameTree ==
    C31_AtDelta3 =>
        LET path == trace_alternating_paths(ctx, ctx.graph.edges[delta.delta_edge][1],
                                            ctx.graph.edges[delta.delta_edge][2])
        IN /\ path.ok
           /\ Len(path.edges) % 2 = 1
           /\ path.is_cycle <=> SameTree(ctx, delta.delta_edge)

\* C31: for a delta3 step on edge (x, y), trace_alternating_paths returns a
\* path of odd length whose is_cycle flag is True exactly when the
\* top-level blossoms of x and y are in the same alternating tree.  In
\* that case add_s_to_s_edge calls make_blossom (one new blossom, no label
\* removed from the blossoms outside it, matching unchanged) and returns
\* False; otherwise it returns True, the blossoms of the two trees of x and
\* y have lost label, tree_edge and tree_blossoms, and every other
\* blossom keeps its label, tree_edge and tree_blossoms.
C31_Delta3MakesBlossomOrAugments ==
    /\ [](C31_PathIsOddAndCycleIffSameTree)
    /\ [][(C31_AtDelta3 /\ ctx'.ok) =>
            (IF SameTree(ctx, delta.delta_edge)
             THEN /\ stage' = stage /\ pc' = "stage"
                  /\ ctx'.nontrivial_blossom = ctx.nontrivial_blossom \cup {ctx.next_blossom}
                  /\ ctx'.blossom[ctx.next_blossom].label = LABEL_S
                  /\ ctx'.vertex_mate = ctx.vertex_mate
                  /\ \A b \in DOMAIN ctx.blossom :
                        ctx.blossom[b].parent = NoneId /\ ctx'.blossom[b].parent = NoneId =>
                            /\ ctx'.blossom[b].label = ctx.blossom[b].label
                            /\ ctx'.blossom[b].tree_edge = ctx.blossom[b].tree_edge
                            /\ ctx'.blossom[b].tree_blossoms = ctx.blossom[b].tree_blossoms
             ELSE /\ stage' = stage + 1
                  /\ ctx'.nontrivial_blossom = ctx.nontrivial_blossom
                  /\ Cardinality(MatchedVertices(ctx')) = Cardinality(MatchedVertices(ctx)) + 2
                  /\ \A b \in DOMAIN ctx.blossom :
                        IF b \in C31_TwoTrees(ctx, delta.delta_edge)
                        THEN /\ ctx'.blossom[b].label = LABEL_NONE
                             /\ ctx'.blossom[b].tree_edge = <<>>
                             /\ ctx'.blossom[b].tree_blossoms = NoneId
                        ELSE /\ ctx'.blossom[b].label = ctx.blossom[b].label
                             /\ ctx'.blossom[b].tree_edge = ctx.blossom[b].tree_edge
                             /\ ctx'.blossom[b].tree_blossoms = ctx.blossom[b].tree_blossoms
                             /\ ctx.blossom[b].tree_blossoms # NoneId =>
                                   ctx'.tree_sets[ctx.blossom[b].tree_blossoms]
                                       = ctx.tree_sets[ctx.blossom[b].tree_blossoms])]_vars

\* C31 witness: add_s_to_s_edge is about to augment between two trees while
\* a third alternating tree with a T-blossom stands by.
C31_Witness ==
    /\ C31_AtDelta3 /\ ~SameTree(ctx, delta.delta_edge)
    /\ \E b \in DOMAIN ctx.blossom :
          /\ ctx.blossom[b].label = LABEL_T
          /\ b \notin C31_TwoTrees(ctx, delta.delta_edge)

\* C31 witness, second case: add_s_to_s_edge is about to make a blossom on a
\* cycle of five edges.
C31_CycleWitness ==
    /\ C31_AtDelta3 /\ SameTree(ctx, delta.delta_edge)
    /\ Len(trace_alternating_paths(ctx, ctx.graph.edges[delta.delta_edge][1],
                                    ctx.graph.edges[delta.delta_edge][2]).edges) >= 5

\* The S-vertex end and the other end of the delta2 edge, as run_stage
\* passes them to extend_tree_s_to_t.
C32_X(c, e) ==
    IF C28_Label(c, c.graph.edges[e][1]) # LABEL_S
    THEN c.graph.edges[e][2] ELSE c.graph.edges[e][1]

C32_Y(c, e) ==
    IF C28_Label(c, c.graph.edges[e][1]) # LABEL_S
    THEN c.graph.edges[e][1] ELSE c.graph.edges[e][2]

\* C32: for a delta2 step on edge (x, y) with x in an S-blossom, when
\* extend_tree_s_to_t returns the top-level blossom of y has label T with
\* tree_edge (x, y), the top-level blossom that contains the mate z of that
\* T-blossom's base vertex has label S (with tree_edge from the base to
\* z), both belong to the alternating tree of x, and the T-blossom is
\* trivial or has a non-zero dual.
C32_Delta2ExtendsTree ==
    [][(pc = "delta" /\ delta.delta_type = 2 /\ ctx'.ok) =>
          LET x == C32_X(ctx, delta.delta_edge)
              y == C32_Y(ctx, delta.delta_edge)
              tree == ctx.blossom[top_level_blossom(ctx, x)].tree_blossoms
              by == top_level_blossom(ctx', y)
              base == ctx'.blossom[by].base_vertex
              z == ctx'.vertex_mate[base]
              bz == top_level_blossom(ctx', z)
          IN /\ C28_Label(ctx, x) = LABEL_S /\ C28_Label(ctx, y) = LABEL_NONE
             /\ tree # NoneId
             /\ ctx'.blossom[by].label = LABEL_T
             /\ ctx'.blossom[by].tree_edge = <<x, y>>
             /\ z # -1 /\ bz # by
             /\ ctx'.blossom[bz].label = LABEL_S
             /\ ctx'.blossom[bz].tree_edge = <<base, z>>
             /\ ctx'.blossom[top_level_blossom(ctx', x)].tree_blossoms = tree
             /\ ctx'.blossom[by].tree_blossoms = tree
             /\ ctx'.blossom[bz].tree_blossoms = tree
             /\ ctx'.tree_sets[tree] = ctx.tree_sets[tree] \cup {by, bz}
             /\ IsNonTrivial(ctx', by) => C26_TrueDual(ctx', by) # 0]_vars

\* C32 witness: extend_tree_s_to_t is about to meet a zero-dual unlabeled
\* blossom around y, which it expands before it assigns label T.
C32_Witness ==
    /\ pc = "delta" /\ delta.delta_type = 2
    /\ IsNonTrivial(ctx, top_level_blossom(ctx, C32_Y(ctx, delta.delta_edge)))
    /\ ctx.blossom[top_level_blossom(ctx, C32_Y(ctx, delta.delta_edge))].dual_var = 0

\* C32 witness, second case: label T is about to go to a non-trivial
\* blossom of positive dual.
C32_BlossomWitness ==
    /\ pc = "delta" /\ delta.delta_type = 2
    /\ IsNonTrivial(ctx, top_level_blossom(ctx, C32_Y(ctx, delta.delta_edge)))
    /\ ctx.blossom[top_level_blossom(ctx, C32_Y(ctx, delta.delta_edge))].dual_var > 0

\* The edges that are in the delta3 queue of state c.
C33_Queued(c) == {c.delta3_queue[i].data : i \in 1..Len(c.delta3_queue)}

\* The queued edges that join two different top-level blossoms.
C33_Cross(c) ==
    {e \in C33_Queued(c) :
        top_level_blossom(c, c.graph.edges[e][1]) # top_level_blossom(c, c.graph.edges[e][2])}

\* C33: whenever delta3_get_min_edge runs (in calc_dual_delta_step, after
\* the scan), every edge in the delta3 queue, the head included, has both
\* endpoints in top-level blossoms labeled S, so the assertion never fails;
\* the edge returned joins two different top-level blossoms and its slack
\* is the least among the queued edges that do, which is half the true
\* slack of that edge; only edges internal to one blossom are discarded,
\* and no edge is returned if every queued edge is internal.
C33_Delta3MinEdge ==
    pc = "stage" =>
        LET cs == scan_new_s_vertices(ctx)
            r == delta3_get_min_edge(cs)
        IN /\ cs.ok /\ r[1].ok
           /\ \A e \in C33_Queued(cs) :
                 /\ cs.delta3_node[e]
                 /\ C28_Label(cs, cs.graph.edges[e][1]) = LABEL_S
                 /\ C28_Label(cs, cs.graph.edges[e][2]) = LABEL_S
           /\ C33_Cross(cs) \subseteq C33_Queued(r[1])
           /\ C33_Queued(r[1]) \subseteq C33_Queued(cs)
           /\ \A e \in 1..Len(cs.graph.edges) :
                 r[1].delta3_node[e] <=> e \in C33_Queued(r[1])
           /\ IF C33_Cross(cs) = {}
              THEN r[2] = NoneId /\ C33_Queued(r[1]) = {}
              ELSE /\ r[2] \in C33_Cross(cs)
                   /\ r[2] = PQ_find_min(r[1].delta3_queue).data
                   /\ \A e \in C33_Cross(cs) :
                         r[3] <= PQ_node(cs.delta3_queue, e).prio - cs.delta_sum_2x
                   /\ 2 * r[3] = C27_TrueSlack2x(cs, r[2])

\* C33 witness: delta3_get_min_edge finds an edge at the head of the queue
\* that has become internal to a blossom, discards it, and returns an edge
\* between two blossoms.
C33_Witness ==
    /\ pc = "stage"
    /\ C33_Queued(scan_new_s_vertices(ctx)) # {}
    /\ PQ_find_min(scan_new_s_vertices(ctx).delta3_queue).data
          \notin C33_Cross(scan_new_s_vertices(ctx))
    /\ delta3_get_min_edge(scan_new_s_vertices(ctx))[2] # NoneId

\* The data of the nodes that are in priority queue "heap".
C34_InQueue(heap) == {heap[i].data : i \in 1..Len(heap)}

\* No element is in a priority queue twice, and every node knows its place.
C34_NoDuplicates(heap) ==
    /\ Cardinality(C34_InQueue(heap)) = Len(heap)
    /\ \A i \in 1..Len(heap) : heap[i].index = i - 1

\* The vertices in whose queue of S-edges edge e is.
C34_SedgeQueuesOf(c, e) ==
    {x \in 0..(c.graph.num_vertex - 1) : e \in C34_InQueue(c.vertex_sedge_queue[x])}

C34_HandlesAreLive(c) ==
    /\ C34_NoDuplicates(c.delta2_queue)
    /\ C34_NoDuplicates(c.delta3_queue)
    /\ C34_NoDuplicates(c.delta4_queue)
    /\ \A x \in 0..(c.graph.num_vertex - 1) : C34_NoDuplicates(c.vertex_sedge_queue[x])
    /\ C34_InQueue(c.delta2_queue) \cup C34_InQueue(c.delta4_queue) \subseteq DOMAIN c.blossom
    /\ \A b \in DOMAIN c.blossom :
          /\ c.blossom[b].delta2_node <=> b \in C34_InQueue(c.delta2_queue)
          /\ c.blossom[b].delta2_node =>
                c.blossom[b].parent = NoneId /\ c.blossom[b].label = LABEL_NONE
          /\ c.blossom[b].delta4_node <=> b \in C34_InQueue(c.delta4_queue)
          /\ c.blossom[b].delta4_node <=>
                /\ IsNonTrivial(c, b)
                /\ c.blossom[b].parent = NoneId
                /\ c.blossom[b].label = LABEL_T
    /\ \A e \in 1..Len(c.graph.edges) :
          /\ ~(c.delta3_node[e] /\ c.vertex_sedge_node[e])
          /\ c.delta3_node[e] <=> e \in C34_InQueue(c.delta3_queue)
          /\ c.vertex_sedge_node[e] <=> C34_SedgeQueuesOf(c, e) # {}
          /\ Cardinality(C34_SedgeQueuesOf(c, e)) <= 1
          /\ C34_SedgeQueuesOf(c, e) \subseteq {c.graph.edges[e][1], c.graph.edges[e][2]}

\* C34: no handle dangles.  Between operations blossom.delta2_node is set
\* only for a top-level unlabeled blossom and then its node is in
\* delta2_queue; blossom.delta4_node is set exactly for the top-level
\* non-trivial T-blossoms and then its node is in delta4_queue;
\* delta3_node[e] and vertex_sedge_node[e] are never both set, and each,
\* when set, has its node in its queue (for vertex_sedge_node the queue of
\* exactly one endpoint of e); no assertion fails, in particular not the
\* one of delta2_add_edge on an edge that is tracked already.
C34_NoHandleDangles ==
    /\ error # "AssertionError"
    /\ C22_HasContext => C34_HandlesAreLive(ctx)
    /\ pc = "stage" => C34_HandlesAreLive(scan_new_s_vertices(ctx))

\* C34 witness: after the scan of a substage there are nodes in the delta2
\* queue, the delta3 queue and the delta4 queue at once.
C34_Witness ==
    /\ pc = "delta"
    /\ ~PQ_empty(ctx.delta2_queue)
    /\ ~PQ_empty(ctx.delta3_queue)
    /\ ~PQ_empty(ctx.delta4_queue)

\* States c1 and c2 give every vertex, and every non-trivial blossom that
\* exists in both, the same true dual.
C35_SameDuals(c1, c2) ==
    /\ \A x \in 0..(c1.graph.num_vertex - 1) :
          C27_TrueVertexDual2x(c1, x) = C27_TrueVertexDual2x(c2, x)
    /\ \A b \in c1.nontrivial_blossom \cap c2.nontrivial_blossom :
          C26_TrueDual(c1, b) = C26_TrueDual(c2, b)

\* The change of twice the true dual of an S-vertex, a T-vertex or an
\* unlabeled vertex, and of the dual of a top-level S-blossom or T-blossom,
\* in a delta step of delta_2x.
C35_EagerChange(label, delta_2x) ==
    IF label = LABEL_S THEN 0 - delta_2x ELSE IF label = LABEL_T THEN delta_2x ELSE 0

\* The delta step of a substage: scanning and choosing the delta change no
\* true dual; adding delta_2x to delta_sum_2x changes the true duals as an
\* eager update would.
C35_DeltaStepIsEager ==
    pc = "stage" =>
        LET cs == scan_new_s_vertices(ctx)
            d == calc_dual_delta_step(cs)
            c1 == substage_delta_sum(d).c
        IN /\ C35_SameDuals(ctx, cs) /\ C35_SameDuals(cs, d.c)
           /\ \A x \in 0..(cs.graph.num_vertex - 1) :
                 C27_TrueVertexDual2x(c1, x)
                     = C27_TrueVertexDual2x(cs, x) + C35_EagerChange(C28_Label(cs, x), d.delta_2x)
           /\ \A b \in cs.nontrivial_blossom :
                 C26_TrueDual(c1, b)
                     = C26_TrueDual(cs, b)
                         - (IF cs.blossom[b].parent = NoneId
                            THEN C35_EagerChange(cs.blossom[b].label, d.delta_2x) ELSE 0)

\* The label operations, applied to any top-level blossom they accept,
\* change no true dual.  After change_s_blossom_to_subblossom the blossom
\* is about to become part of an S-blossom: its own dual is unchanged and
\* the stored vertex duals are untouched.
C35_LabelOperationsKeepDuals ==
    pc \in {"stage", "delta"} =>
        \A b \in DOMAIN ctx.blossom :
            ctx.blossom[b].parent = NoneId =>
                /\ ctx.blossom[b].label = LABEL_NONE =>
                      /\ C35_SameDuals(ctx, assign_blossom_label_s(ctx, b))
                      /\ C35_SameDuals(ctx, assign_blossom_label_t(ctx, b))
                      /\ IsNonTrivial(ctx, b) =>
                            C35_SameDuals(ctx, expand_unlabeled_blossom(ctx, b))
                /\ ctx.blossom[b].label = LABEL_S =>
                      /\ C35_SameDuals(ctx, remove_blossom_label_s(ctx, b))
                      /\ LET c1 == change_s_blossom_to_subblossom(ctx, b)
                         IN /\ c1.vertex_dual_2x = ctx.vertex_dual_2x
                            /\ c1.blossom[b].vertex_dual_offset = 0
                            /\ \A b2 \in ctx.nontrivial_blossom :
                                  C26_TrueDual(c1, b2) = C26_TrueDual(ctx, b2)
                /\ ctx.blossom[b].label = LABEL_T =>
                      C35_SameDuals(ctx, remove_blossom_label_t(ctx, b))

\* C35: the lazy dual bookkeeping refines an eager one.  With the true
\* duals reconstructed by the label-dependent formulas, a delta step of
\* delta_2x = 2*delta lowers twice the dual of every S-vertex by delta_2x,
\* raises that of every T-vertex by delta_2x, raises the dual of every
\* top-level S-blossom by delta_2x, lowers that of every top-level
\* T-blossom by delta_2x and changes nothing else; the label operations
\* and expand_unlabeled_blossom change no true dual, and so does every
\* step that is made of them (tree extension, make_blossom, whose new
\* blossom has dual 0, augmenting, expand_t_blossom, cleanup).
C35_LazyDualsRefineEagerDuals ==
    /\ [](C35_DeltaStepIsEager)
    /\ [](C35_LabelOperationsKeepDuals)
    /\ [][((pc = "delta" \/ pc = "cleanup") /\ ctx'.ok) =>
            /\ C35_SameDuals(ctx, ctx')
            /\ \A b \in ctx'.nontrivial_blossom \ ctx.nontrivial_blossom :
                  C26_TrueDual(ctx', b) = 0]_vars

\* C35 witness: after earlier delta steps, a delta step of positive size is
\* about to be taken with a top-level non-trivial T-blossom in a tree.
C35_Witness ==
    /\ pc = "stage" /\ ctx.delta_sum_2x > 0
    /\ calc_dual_delta_step(scan_new_s_vertices(ctx)).delta_2x > 0
    /\ \E b \in ctx.nontrivial_blossom :
          ctx.blossom[b].parent = NoneId /\ ctx.blossom[b].label = LABEL_T

\* C35 witness, second case: a delta step of positive size with S-vertices,
\* T-vertices and unlabeled vertices present.
C35_LabelsWitness ==
    /\ pc = "stage" /\ ctx.delta_sum_2x > 0
    /\ calc_dual_delta_step(scan_new_s_vertices(ctx)).delta_2x > 0
    /\ {C28_Label(ctx, x) : x \in 0..(ctx.graph.num_vertex - 1)}
          = {LABEL_NONE, LABEL_S, LABEL_T}

\* The state cleanup() leaves behind: no assertion failed, every blossom is
\* unlabeled and out of every tree with offset 0, the three queues are empty.
C36_Clean(c) ==
    /\ c.ok
    /\ \A b \in DOMAIN c.blossom :
          /\ c.blossom[b].label = LABEL_NONE
          /\ c.blossom[b].tree_edge = <<>>
          /\ c.blossom[b].tree_blossoms = NoneId
          /\ c.blossom[b].vertex_dual_offset = 0
    /\ PQ_empty(c.delta2_queue)
    /\ PQ_empty(c.delta3_queue)
    /\ PQ_empty(c.delta4_queue)

\* C36: when cleanup() is called after run_stage returned False the scan
\* queue is empty, and for every order in which the non-trivial blossoms are
\* visited cleanup() passes its assertions and leaves every blossom with
\* label NONE, no tree_edge, no tree_blossoms and vertex_dual_offset 0, and
\* the delta2, delta3 and delta4 queues empty; the context it leaves does
\* not depend on the order.
C36_CleanupResetsEverything ==
    pc = "cleanup" =>
        /\ ctx.scan_queue = <<>>
        /\ \A order \in Orderings(ctx.nontrivial_blossom) :
              C36_Clean(cleanup(ctx, order))
        /\ \A o1, o2 \in Orderings(ctx.nontrivial_blossom) :
              cleanup(ctx, o1) = cleanup(ctx, o2)

\* C36 witness: cleanup() is called with a top-level non-trivial S-blossom
\* and a top-level non-trivial T-blossom of non-zero offset in place, and
\* with entries in the queues.
C36_Witness ==
    /\ pc = "cleanup"
    /\ \E b \in ctx.nontrivial_blossom :
          ctx.blossom[b].parent = NoneId /\ ctx.blossom[b].label = LABEL_S
    /\ \E b \in ctx.nontrivial_blossom :
          /\ ctx.blossom[b].parent = NoneId /\ ctx.blossom[b].label = LABEL_T
          /\ ctx.blossom[b].vertex_dual_offset # 0
    /\ ~PQ_empty(ctx.delta2_queue) \/ ~PQ_empty(ctx.delta3_queue)
          \/ ~PQ_empty(ctx.delta4_queue)

\* The vertices without a mate.
C37_Unmatched(c) == {x \in DOMAIN c.vertex_mate : c.vertex_mate[x] = -1}

\* The blossoms of alternating tree t that have no tree_edge and an
\* unmatched base vertex.
C37_Roots(c, t) ==
    {b \in c.tree_sets[t] :
        /\ c.blossom[b].tree_edge = <<>>
        /\ c.blossom[b].base_vertex \in C37_Unmatched(c)}

\* C37: at the start of every substage, each unmatched vertex is the base
\* vertex of a top-level blossom with label S and no tree_edge that is in its
\* own tree_blossoms set; each alternating tree has exactly one blossom
\* without tree_edge, and that one has an unmatched base vertex; twice the
\* true dual of every unmatched vertex is start_vertex_dual_2x -
\* delta_sum_2x, and no S-vertex has a smaller true dual.
C37_UnmatchedVerticesAreRoots ==
    pc = "stage" =>
        /\ \A x \in C37_Unmatched(ctx) :
              LET b == top_level_blossom(ctx, x)
              IN /\ ctx.blossom[b].base_vertex = x
                 /\ ctx.blossom[b].label = LABEL_S
                 /\ ctx.blossom[b].tree_edge = <<>>
                 /\ ctx.blossom[b].tree_blossoms \in DOMAIN ctx.tree_sets
                 /\ b \in TreeOf(ctx, x)
                 /\ C27_TrueVertexDual2x(ctx, x)
                        = ctx.start_vertex_dual_2x - ctx.delta_sum_2x
        /\ \A b \in DOMAIN ctx.blossom :
              (ctx.blossom[b].parent = NoneId /\ ctx.blossom[b].label # LABEL_NONE) =>
                  LET t == ctx.blossom[b].tree_blossoms
                  IN /\ Cardinality(C37_Roots(ctx, t)) = 1
                     /\ {r \in ctx.tree_sets[t] : ctx.blossom[r].tree_edge = <<>>}
                            = C37_Roots(ctx, t)
        /\ \A x \in DOMAIN ctx.vertex_mate :
              C28_Label(ctx, x) = LABEL_S =>
                  C27_TrueVertexDual2x(ctx, x)
                      >= ctx.start_vertex_dual_2x - ctx.delta_sum_2x

\* C37 witness: a substage starts after earlier delta steps with two or more
\* unmatched vertices, a tree of three or more blossoms, and a matched
\* S-vertex whose true dual is above that of the unmatched vertices.
C37_Witness ==
    /\ pc = "stage" /\ ctx.delta_sum_2x > 0
    /\ Cardinality(C37_Unmatched(ctx)) >= 2
    /\ \E t \in DOMAIN ctx.tree_sets : Cardinality(ctx.tree_sets[t]) >= 3
    /\ \E x \in MatchedVertices(ctx) :
          /\ C28_Label(ctx, x) = LABEL_S
          /\ C27_TrueVertexDual2x(ctx, x)
                 > ctx.start_vertex_dual_2x - ctx.delta_sum_2x

\* Edge (x, y) is in the matching.
C38_Matched(c, e) == c.vertex_mate[e[1]] = e[2] /\ c.vertex_mate[e[2]] = e[1]

\* Non-trivial blossom b is an alternating cycle that starts at its base.
C38_WellFormed(c, b) ==
    LET subs == c.blossom[b].subblossoms
        es == c.blossom[b].edges
        k == Len(subs)
    IN /\ k >= 3 /\ k % 2 = 1 /\ Len(es) = k
       /\ \A i \in 1..k :
             /\ es[i][1] \in Range(vertices(c, subs[i]))
             /\ es[i][2] \in Range(vertices(c, subs[(i % k) + 1]))
             /\ C38_Matched(c, es[i]) <=> (i - 1) % 2 = 1
       /\ c.blossom[b].base_vertex = c.blossom[subs[1]].base_vertex

\* The sub-blossom list and edge list of b in c2 are those of c1 rotated.
C38_Rotated(c1, c2, b) ==
    \E p \in 0..(Len(c1.blossom[b].subblossoms) - 1) :
        LET subs == c1.blossom[b].subblossoms
            es == c1.blossom[b].edges
        IN /\ c2.blossom[b].subblossoms
                  = SubSeq(subs, p + 1, Len(subs)) \o SubSeq(subs, 1, p)
           /\ c2.blossom[b].edges = SubSeq(es, p + 1, Len(es)) \o SubSeq(es, 1, p)

\* C38: in every state between substages (stage boundaries included) every
\* non-trivial blossom has an odd number >= 3 of sub-blossoms and as many
\* edges, edges[i] leads from a vertex of subblossoms[i] to a vertex of
\* subblossoms[(i+1) mod k], base_vertex is the base_vertex of
\* subblossoms[0], and edges[i] is matched exactly if i is odd.
C38_EveryBlossomIsWellFormed ==
    C22_HasContext => \A b \in ctx.nontrivial_blossom : C38_WellFormed(ctx, b)

\* C38, the rotation: augmenting a top-level non-trivial blossom towards any
\* of its vertices x (augment_blossom_rec on the blossom and, through the
\* stack, on the nested blossoms on the path) rotates the lists, makes x the
\* base vertex and leaves every non-trivial blossom well-formed.
C38_RotationKeepsBlossomsWellFormed ==
    pc = "stage" =>
        \A b \in ctx.nontrivial_blossom :
            ctx.blossom[b].parent = NoneId =>
                \A x \in Range(vertices(ctx, b)) :
                    LET c == augment_blossom(ctx, b, x)
                    IN /\ c.ok
                       /\ c.blossom[b].base_vertex = x
                       /\ \A b2 \in c.nontrivial_blossom :
                             /\ C38_WellFormed(c, b2)
                             /\ C38_Rotated(ctx, c, b2)

\* C38: both parts.
C38_BlossomsAreAlternatingCycles ==
    C38_EveryBlossomIsWellFormed /\ C38_RotationKeepsBlossomsWellFormed

\* C38 witness: in a stage after the first a substage starts with a
\* top-level blossom that has a non-trivial sub-blossom and whose base vertex
\* is matched to a vertex outside.
C38_Witness ==
    /\ pc = "stage" /\ stage >= 2
    /\ \E b \in ctx.nontrivial_blossom :
          /\ ctx.blossom[b].parent = NoneId
          /\ \E i \in 1..Len(ctx.blossom[b].subblossoms) :
                IsNonTrivial(ctx, ctx.blossom[b].subblossoms[i])
          /\ ctx.vertex_mate[ctx.blossom[b].base_vertex] # -1

\* C38 witness, second case: a top-level blossom of five sub-blossoms.
C38_FiveWitness ==
    /\ pc = "stage" /\ stage >= 2
    /\ \E b \in ctx.nontrivial_blossom :
          ctx.blossom[b].parent = NoneId /\ Len(ctx.blossom[b].subblossoms) >= 5

\* The sub-blossom of b that contains vertex y.
C39_SubOf(c, b, y) ==
    CHOOSE s \in Range(c.blossom[b].subblossoms) : y \in Range(vertices(c, s))

\* The sub-blossoms of b on the path with an even number of edges from
\* sub-blossom sub to subblossoms[0], which contains the base vertex.
C39_Path(c, b, sub) ==
    LET subs == c.blossom[b].subblossoms
        k == Len(subs)
        p == IndexOf(subs, sub) - 1
    IN IF p % 2 = 0
       THEN [i \in 1..(p + 1) |-> subs[p + 2 - i]]
       ELSE [i \in 1..(k - p + 1) |-> subs[((p + i - 1) % k) + 1]]

\* What expand_t_blossom(b) makes of context c1, c2 being the result.
C39_Expanded(c1, c2, b) ==
    LET B == c1.blossom[b]
        tree == B.tree_blossoms
        subs == Range(B.subblossoms)
        path == C39_Path(c1, b, C39_SubOf(c1, b, B.tree_edge[2]))
        z == c1.vertex_mate[B.base_vertex]
        bz == top_level_blossom(c1, z)
    IN /\ c2.ok
       /\ b \notin c2.nontrivial_blossom
       /\ \A s \in subs : c2.blossom[s].parent = NoneId
       /\ Len(path) % 2 = 1
       /\ \A i \in 1..Len(path) :
             /\ c2.blossom[path[i]].label = IF i % 2 = 1 THEN LABEL_T ELSE LABEL_S
             /\ c2.blossom[path[i]].tree_blossoms = tree
             /\ c2.blossom[path[i]].tree_edge # <<>>
       /\ c2.blossom[path[1]].tree_edge = B.tree_edge
       /\ B.base_vertex \in Range(vertices(c2, Last(path)))
       /\ c2.blossom[Last(path)].base_vertex = B.base_vertex
       /\ \A s \in subs \ Range(path) :
             /\ c2.blossom[s].label = LABEL_NONE
             /\ c2.blossom[s].tree_edge = <<>>
             /\ c2.blossom[s].tree_blossoms = NoneId
       /\ c2.tree_sets[tree] = (c1.tree_sets[tree] \ {b}) \cup Range(path)
       /\ z # -1 /\ bz # b
       /\ top_level_blossom(c2, z) = bz
       /\ c2.blossom[bz].label = LABEL_S
       /\ c2.blossom[bz].tree_blossoms = tree
       /\ c2.blossom[bz].tree_edge = c1.blossom[bz].tree_edge
       /\ c2.blossom[bz].tree_edge # <<>>
       /\ c2.blossom[bz].tree_edge[1] = B.base_vertex
       /\ C28_Label(c2, c2.blossom[bz].tree_edge[1]) = LABEL_T
       /\ \A o \in DOMAIN c2.blossom \ subs :
             /\ c2.blossom[o].label = c1.blossom[o].label
             /\ c2.blossom[o].tree_edge = c1.blossom[o].tree_edge
             /\ c2.blossom[o].tree_blossoms = c1.blossom[o].tree_blossoms
             /\ c2.blossom[o].parent = c1.blossom[o].parent

\* C39: the step of a substage whose delta type is 4 expands a top-level
\* T-blossom B that has tree_edge (x, y); after it B is gone, its
\* sub-blossoms are top-level, those on the even-length path from the
\* sub-blossom of y to the sub-blossom of B's base have labels T, S, ..., T
\* and are in B's former tree (the first with tree_edge (x, y), the last
\* holding B's former base), all other sub-blossoms are unlabeled, and the
\* S-blossom below B keeps its tree_edge, whose first vertex is now in a
\* blossom with label T.
C39_ExpandTBlossom ==
    [][(pc = "delta" /\ delta.delta_type = 4) =>
          /\ ctx.blossom[delta.delta_blossom].parent = NoneId
          /\ ctx.blossom[delta.delta_blossom].label = LABEL_T
          /\ ctx.blossom[delta.delta_blossom].tree_edge # <<>>
          /\ C39_Expanded(ctx, ctx', delta.delta_blossom)]_vars

\* C39 witness: a T-blossom is about to be expanded whose tree_edge enters
\* a sub-blossom other than the one with the base, so that the path has
\* three or more sub-blossoms.
C39_Witness ==
    /\ pc = "delta" /\ delta.delta_type = 4
    /\ Len(C39_Path(ctx, delta.delta_blossom,
                    C39_SubOf(ctx, delta.delta_blossom,
                              ctx.blossom[delta.delta_blossom].tree_edge[2]))) >= 3

\* C39 witness, second case: some sub-blossoms are off the path and become
\* unlabeled.
C39_UnlabeledWitness ==
    /\ pc = "delta" /\ delta.delta_type = 4
    /\ Range(ctx.blossom[delta.delta_blossom].subblossoms)
          \ Range(C39_Path(ctx, delta.delta_blossom,
                           C39_SubOf(ctx, delta.delta_blossom,
                                     ctx.blossom[delta.delta_blossom].tree_edge[2]))) # {}

\* With integer weights every number of the model is a Python int except
\* math.inf, which is a float.
C40_IsInteger(v) == v # Inf

\* The priorities of the nodes of priority queue "heap".
C40_Priorities(heap) == {heap[i].prio : i \in 1..Len(heap)}

\* vertex_dual_2x, dual_var, vertex_dual_offset and delta_sum_2x.
C40_Duals(c) ==
    {c.vertex_dual_2x[x] : x \in DOMAIN c.vertex_dual_2x}
        \cup {c.blossom[b].dual_var : b \in DOMAIN c.blossom}
        \cup {c.blossom[b].vertex_dual_offset : b \in DOMAIN c.blossom}
        \cup {c.delta_sum_2x}

\* The priorities in the delta2, delta3 and delta4 queues and in the queues
\* of S-edges of the vertices.
C40_HeapPriorities(c) ==
    C40_Priorities(c.delta2_queue) \cup C40_Priorities(c.delta3_queue)
        \cup C40_Priorities(c.delta4_queue)
        \cup UNION {C40_Priorities(c.vertex_sedge_queue[x]) : x \in DOMAIN c.vertex_sedge_queue}

\* The priority of vertex x in the concatenable queue of its blossom.
C40_VertexQueuePriority(c, x) == c.cq.node[x].prio

\* Every edge in the delta3 queue has an even pseudo-slack, and its priority
\* is exactly half of it.
C40_Delta3IsEven(c) ==
    \A i \in 1..Len(c.delta3_queue) :
        /\ edge_pseudo_slack_2x(c, c.delta3_queue[i].data) % 2 = 0
        /\ 2 * c.delta3_queue[i].prio = edge_pseudo_slack_2x(c, c.delta3_queue[i].data)

\* The part of C40 that holds as stated: the duals and the priorities of
\* the delta queues and S-edge queues are integers, S-vertices have stored
\* duals of one parity, and every delta3 insertion, those of the next scan
\* included, finds an even pseudo-slack.
C40_IntegersAndEvenSlack(c) ==
    /\ \A v \in C40_Duals(c) \cup C40_HeapPriorities(c) : C40_IsInteger(v)
    /\ \A x \in DOMAIN c.vertex_dual_2x :
          C28_Label(c, x) = LABEL_S =>
              (c.vertex_dual_2x[x] - c.start_vertex_dual_2x) % 2 = 0
    /\ C40_Delta3IsEven(c)

\* C40 as stated: with integer weights every value of vertex_dual_2x,
\* dual_var, vertex_dual_offset and delta_sum_2x and every queue priority,
\* those of the vertex queues of the blossoms included, is an integer, and
\* the assertion of delta3_add_edge never fails.
C40_EveryPriorityIsAnInteger ==
    /\ error # "AssertionError"
    /\ C22_HasContext =>
          /\ C40_IntegersAndEvenSlack(ctx)
          /\ \A x \in DOMAIN ctx.vertex_dual_2x :
                C40_IsInteger(C40_VertexQueuePriority(ctx, x))

\* C40 amended: the same, except that in the vertex queue of its blossom a
\* vertex has priority math.inf exactly while its queue of S-edges is empty,
\* and otherwise the least priority of that queue, an integer.
C40_EveryFinitePriorityIsAnInteger ==
    /\ error # "AssertionError"
    /\ C22_HasContext =>
          /\ C40_IntegersAndEvenSlack(ctx)
          /\ \A x \in DOMAIN ctx.vertex_dual_2x :
                C40_VertexQueuePriority(ctx, x) =
                    IF PQ_empty(ctx.vertex_sedge_queue[x]) THEN Inf
                    ELSE PQ_find_min(ctx.vertex_sedge_queue[x]).prio
    /\ pc = "stage" =>
          /\ scan_new_s_vertices(ctx).ok
          /\ C40_IntegersAndEvenSlack(scan_new_s_vertices(ctx))

\* C40 witness: after delta steps that made the stored duals differ, the
\* delta3 queue holds an edge of odd weight, one vertex has a finite
\* priority in the vertex queue of its blossom and another has math.inf.
C40_Witness ==
    /\ pc = "delta" /\ ctx.delta_sum_2x > 0
    /\ \E i \in 1..Len(ctx.delta3_queue) :
          /\ ctx.graph.edges[ctx.delta3_queue[i].data][3] % 2 = 1
          /\ ctx.delta3_queue[i].prio > 0
    /\ Cardinality({ctx.vertex_dual_2x[x] : x \in DOMAIN ctx.vertex_dual_2x}) >= 2
    /\ \E x \in DOMAIN ctx.vertex_dual_2x : C40_VertexQueuePriority(ctx, x) = Inf
    /\ \E x \in DOMAIN ctx.vertex_dual_2x : C40_VertexQueuePriority(ctx, x) < Inf

====
